---- MODULE Spec2Model ----
(***************************************************************************)
(* Model of the finance tracker (Django app "expenses"): the Entity Store  *)
(* (Category, Expense, Income rows owned by users), the CRUD views, the    *)
(* Summary Engine (get_financial_summary), the Filter Engine               *)
(* (ExpenseListView) and the Aggregation Engine (DashboardView.get).       *)
(*                                                                         *)
(* Money is an integer number of cents (DecimalField, decimal_places=2).   *)
(* A date is a day ordinal, day 1 = 2026-01-01; the calendar below is the  *)
(* proleptic Gregorian calendar restricted to 2026 and 2027 (no leap day). *)
(* Text is a sequence of one-character strings; the name, icon and color   *)
(* of a category, which the code only stores and compares, are sequences   *)
(* of one piece.  created_at, which only orders the rows of one table, is  *)
(* the row's insertion number.                                             *)
(***************************************************************************)
EXTENDS Integers, Sequences, FiniteSets, TLC

VARIABLES
    categories,   \* set of Category rows
    expenses,     \* set of Expense rows
    incomes,      \* set of Income rows
    nextCategory, \* next primary key (and insertion time) of the Category table
    nextExpense,  \* next primary key (and insertion time) of the Expense table
    nextIncome,   \* next primary key (and insertion time) of the Income table
    pending,      \* the edit requests between their is_valid() and their save()
    users,        \* the primary keys of the User rows
    emails,       \* User.email of each User row
    profiles,     \* UserProfile.currency of each user that has a profile
    resp          \* the last request and its response

vars == <<categories, expenses, incomes, nextCategory, nextExpense, nextIncome,
          pending, users, emails, profiles, resp>>

store == <<categories, expenses, incomes>>

---------------------------------------------------------------------------
(* Bounds of the model.                                                    *)

\* Rows created per table through the create views: the create requests of a
\* specification stop when the table's counter has passed the bound.
MaxCategories == 1
MaxExpenses == 2
MaxIncomes == 1
\* The same for the specification of the category breakdown.
MaxPieCategories == 2
MaxPieExpenses == 3
\* The seeders run while the counters of the Category and of the Expense
\* table have not passed these: a seeding of one user after that of the
\* other, and a second run of seed_data after the first.
MaxSeedCategories == 14
MaxSeedExpenses == 11
\* Expenses posted through the create view in the specification of the seeders.
MaxSeedPosts == 1
\* Rows created per table in the specification of the listings.
MaxRecent == 6
\* In the specification of concurrent edits: the edit requests in flight at a
\* time, and the value of a table's counter up to which edits are begun.
MaxPending == 2
MaxEditClock == 3
\* SpecUsers: the largest primary key a registration gives a user.
MaxUsers == 5
\* settings.EXPENSES_PER_PAGE as configured for the model.
EXPENSES_PER_PAGE == 1

\* The users registered from the start.
Users == {1, 2}
\* The user 'demo' of the seed_data command.
DemoUser == 3
\* User.email of the users registered from the start, and of 'demo'.
UserEmails == <<"u1@x.io", "u2@x.io">>
DemoEmail == "demo@financetracker.com"
\* UserProfile.currency, default='$'
DefaultCurrency == <<"$">>

\* 2027-01-20, the value of date.today() during the run.
Today == 385
\* timedelta(days=180)
WindowDays == 180

\* 2026-07-23 (one day before the window), 2026-07-24 (first day of the
\* window), 2026-12-16, 2027-01-10 and 2027-02-09 (after today).
Dates == {204, 205, 350, 375, 400}

---------------------------------------------------------------------------
(* Values.                                                                 *)

\* category = NULL of a transaction
NoCategory == 0

\* A raw request parameter: absent (or empty), malformed, or a value.
Absent == [k |-> "absent", v |-> 0]
Malformed == [k |-> "bad", v |-> 0]
Val(n) == [k |-> "val", v |-> n]

\* A cleaned form value: None or a value.
None == [k |-> "none", v |-> 0]
IsNone(c) == c.k = "none"

\* A number that may be missing: a Decimal or None (SQL NULL).
Null == [null |-> TRUE, v |-> 0]
Num(n) == [null |-> FALSE, v |-> n]

---------------------------------------------------------------------------
(* Calendar.                                                               *)

CumDays == <<0, 31, 59, 90, 120, 151, 181, 212, 243, 273, 304, 334>>
MonthAbbr == <<"Jan", "Feb", "Mar", "Apr", "May", "Jun",
               "Jul", "Aug", "Sep", "Oct", "Nov", "Dec">>

YearOf(d) == 2026 + ((d - 1) \div 365)
DayOfYear(d) == ((d - 1) % 365) + 1
MonthOf(d) == CHOOSE m \in 1..12 :
                  /\ CumDays[m] < DayOfYear(d)
                  /\ \A n \in 1..12 : CumDays[n] < DayOfYear(d) => n <= m

\* TruncMonth('date'): the first day of the date's month.
TruncMonth(d) == (YearOf(d) - 2026) * 365 + CumDays[MonthOf(d)] + 1

YearStr(y) == IF y = 2026 THEN "2026" ELSE "2027"

\* date.strftime('%b %Y')
MonthLabel(d) == MonthAbbr[MonthOf(d)] \o " " \o YearStr(YearOf(d))

---------------------------------------------------------------------------
(* Text.                                                                   *)

UpperLetters == <<"A", "B", "C", "D", "E", "F", "G", "H", "I", "J", "K", "L", "M",
                 "N", "O", "P", "Q", "R", "S", "T", "U", "V", "W", "X", "Y", "Z">>
LowerLetters == <<"a", "b", "c", "d", "e", "f", "g", "h", "i", "j", "k", "l", "m",
                 "n", "o", "p", "q", "r", "s", "t", "u", "v", "w", "x", "y", "z">>
LowerTable == [c \in {UpperLetters[i] : i \in 1..26} |->
                  LowerLetters[CHOOSE i \in 1..26 : UpperLetters[i] = c]]
LowerChar(c) == IF c \in DOMAIN LowerTable THEN LowerTable[c] ELSE c
Lower(s) == [i \in 1..Len(s) |-> LowerChar(s[i])]

\* field__icontains=needle
IContains(text, needle) ==
    \E i \in 1..(Len(text) - Len(needle) + 1) :
        SubSeq(Lower(text), i, i + Len(needle) - 1) = Lower(needle)

---------------------------------------------------------------------------
(* Query layer: what the ORM calls of the views compute.                   *)

\* NULL of a joined text column (category__name, category__color)
NullText == <<"\\N">>

\* Mutant of OwnedBy: the filter on user is missing.
OwnedByAnyone(rows, user) == rows

\* Model.objects.filter(user=user)
OwnedBy(rows, user) == {r \in rows : r.user = user}

RECURSIVE SumAmount(_)
SumAmount(rows) ==
    IF rows = {} THEN 0
    ELSE LET r == CHOOSE x \in rows : TRUE
         IN  r.amount + SumAmount(rows \ {r})

\* qs.aggregate(total=Sum('amount'))['total']: NULL over no rows
NullIfEmpty(rows, n) == IF rows = {} THEN Null ELSE Num(n)
AggregateSum(rows) == NullIfEmpty(rows, SumAmount(rows))

\* Mutant of OrDefault: the  or Decimal('0')  is missing.
NoDefault(x, d) == x

\* Python's  x or d  for the aggregate's result x
OrDefault(x, d) == IF x.null \/ x.v = 0 THEN d ELSE x

\* total_income - total_expenses
Minus(a, b) == IF a.null \/ b.null THEN Null ELSE Num(a.v - b.v)

\* Mutant of Precedes: ordering = ['date', '-created_at']
PrecedesByDateAscending(a, b) ==
    \/ a.date < b.date
    \/ a.date = b.date /\ a.created_at > b.created_at

\* Meta.ordering = ['-date', '-created_at']
Precedes(a, b) ==
    \/ a.date > b.date
    \/ a.date = b.date /\ a.created_at > b.created_at

RECURSIVE Ordered(_)
Ordered(rows) ==
    IF rows = {} THEN <<>>
    ELSE LET first == CHOOSE r \in rows : \A o \in rows \ {r} : Precedes(r, o)
         IN  <<first>> \o Ordered(rows \ {first})

RECURSIVE SortAsc(_)
SortAsc(S) ==
    IF S = {} THEN <<>>
    ELSE LET m == CHOOSE x \in S : \A y \in S : x <= y
         IN  <<m>> \o SortAsc(S \ {m})

Range(f) == {f[i] : i \in DOMAIN f}

Take(s, n) == SubSeq(s, 1, IF Len(s) < n THEN Len(s) ELSE n)

CategoryById(C, pk) == CHOOSE c \in C : c.id = pk
HasCategory(C, pk) == \E c \in C : c.id = pk

\* select_related / values('category__name'): the LEFT JOIN on category
CategoryName(C, row) ==
    IF row.category # NoCategory /\ HasCategory(C, row.category)
    THEN CategoryById(C, row.category).name ELSE NullText
CategoryColor(C, row) ==
    IF row.category # NoCategory /\ HasCategory(C, row.category)
    THEN CategoryById(C, row.category).color ELSE NullText

---------------------------------------------------------------------------
(* Form fields.                                                            *)

\* forms.DateField(required=False).clean / forms.DecimalField(required=False)
FieldOk(raw) == raw.k # "bad"
CleanField(raw) == IF raw.k = "val" THEN raw ELSE None

\* forms.ModelChoiceField(queryset, required=False).clean
ChoiceOk(raw, queryset) ==
    \/ raw.k = "absent"
    \/ raw.k = "val" /\ \E c \in queryset : c.id = raw.v

---------------------------------------------------------------------------
(* Summary Engine.                                                         *)

\* if date_from: qs = qs.filter(date__gte=date_from)
DateFromFilter(rows, date_from) ==
    IF IsNone(date_from) THEN rows ELSE {r \in rows : r.date >= date_from.v}

\* Mutant of DateToFilter: the upper bound is exclusive.
DateToExclusive(rows, date_to) ==
    IF IsNone(date_to) THEN rows ELSE {r \in rows : r.date < date_to.v}

\* if date_to: qs = qs.filter(date__lte=date_to)
DateToFilter(rows, date_to) ==
    IF IsNone(date_to) THEN rows ELSE {r \in rows : r.date <= date_to.v}

get_financial_summary(E, I, user, date_from, date_to) ==
    LET expenses_qs == DateToFilter(DateFromFilter(OwnedBy(E, user), date_from), date_to)
        income_qs == DateToFilter(DateFromFilter(OwnedBy(I, user), date_from), date_to)
        total_expenses == OrDefault(AggregateSum(expenses_qs), Num(0))
        total_income == OrDefault(AggregateSum(income_qs), Num(0))
    IN  [total_expenses |-> total_expenses,
         total_income |-> total_income,
         balance |-> Minus(total_income, total_expenses),
         expenses_qs |-> expenses_qs,
         income_qs |-> income_qs]

---------------------------------------------------------------------------
(* Filter Engine: ExpenseListView.                                         *)

\* The GET parameters of the expense list.
NoFilter == [search |-> <<>>, category |-> Absent, date_from |-> Absent,
             date_to |-> Absent, amount_min |-> Absent, amount_max |-> Absent]

\* ExpenseFilterForm(GET, user=user).is_valid()
ExpenseFilterFormValid(C, user, get) ==
    /\ ChoiceOk(get.category, OwnedBy(C, user))
    /\ FieldOk(get.date_from)
    /\ FieldOk(get.date_to)
    /\ FieldOk(get.amount_min)
    /\ FieldOk(get.amount_max)

SearchFilter(rows, search) ==
    IF search = <<>> THEN rows
    ELSE {r \in rows : IContains(r.title, search) \/ IContains(r.description, search)}
CategoryFilter(rows, category) ==
    IF IsNone(category) THEN rows ELSE {r \in rows : r.category = category.v}
AmountMinFilter(rows, amount_min) ==
    IF IsNone(amount_min) THEN rows ELSE {r \in rows : r.amount >= amount_min.v}
AmountMaxFilter(rows, amount_max) ==
    IF IsNone(amount_max) THEN rows ELSE {r \in rows : r.amount <= amount_max.v}

\* The chain of qs.filter(...) calls made when the form is valid.
ApplyFilters(rows, get) ==
    AmountMaxFilter(
      AmountMinFilter(
        DateToFilter(
          DateFromFilter(
            CategoryFilter(
              SearchFilter(rows, get.search),
              CleanField(get.category)),
            CleanField(get.date_from)),
          CleanField(get.date_to)),
        CleanField(get.amount_min)),
      CleanField(get.amount_max))

\* ExpenseListView.get_queryset (as a set; the list is Ordered(...) of it)
get_queryset(C, E, user, get) ==
    IF ExpenseFilterFormValid(C, user, get)
    THEN ApplyFilters(OwnedBy(E, user), get)
    ELSE OwnedBy(E, user)

\* Paginator(object_list, paginate_by)
NumPages(n) == IF n = 0 THEN 1 ELSE (n + EXPENSES_PER_PAGE - 1) \div EXPENSES_PER_PAGE
PageOf(list, page) ==
    SubSeq(list, (page - 1) * EXPENSES_PER_PAGE + 1,
           IF page * EXPENSES_PER_PAGE < Len(list)
           THEN page * EXPENSES_PER_PAGE ELSE Len(list))

\* Mutant of TotalFilteredRows: only the rows of the page shown.
TotalOfPage(C, E, user, get, page) ==
    Range(PageOf(Ordered(get_queryset(C, E, user, get)), page))

\* The rows total_filtered is aggregated over: self.get_queryset().
TotalFilteredRows(C, E, user, get, page) == get_queryset(C, E, user, get)

\* ExpenseListView: get_queryset, pagination, get_context_data
ExpenseList(C, E, user, get, page) ==
    LET object_list == Ordered(get_queryset(C, E, user, get))
    IN  IF page > NumPages(Len(object_list))
        THEN [status |-> 404]
        ELSE [status |-> 200,
              form_valid |-> ExpenseFilterFormValid(C, user, get),
              expenses |-> PageOf(object_list, page),
              total_filtered |->
                  OrDefault(AggregateSum(TotalFilteredRows(C, E, user, get, page)), Num(0))]

\* IncomeListView: get_queryset, pagination, get_context_data
IncomeList(I, user, page) ==
    LET object_list == Ordered(OwnedBy(I, user))
    IN  IF page > NumPages(Len(object_list))
        THEN [status |-> 404]
        ELSE [status |-> 200,
              incomes |-> PageOf(object_list, page),
              total_income |-> OrDefault(AggregateSum(OwnedBy(I, user)), Num(0))]

\* ExportExpensesCSVView / ExportIncomeCSVView: the data rows written
CsvRow(C, r) ==
    <<r.title, r.amount,
      IF r.category # NoCategory /\ HasCategory(C, r.category)
      THEN CategoryById(C, r.category).name ELSE <<>>,
      r.date, r.description, r.created_at>>
ExportCsv(C, rows, user) ==
    LET list == Ordered(OwnedBy(rows, user))
    IN  [status |-> 200, rows |-> [i \in 1..Len(list) |-> CsvRow(C, list[i])]]

---------------------------------------------------------------------------
(* Aggregation Engine: DashboardView.get.                                  *)

\* float(Decimal): exact for the amounts of the model (fewer than 15
\* significant digits), in cents here as everywhere.
Float(n) == n

\* six_months_ago = date.today() - timedelta(days=180)
SixMonthsAgo == Today - WindowDays

\* .filter(user=user, date__gte=six_months_ago)
WindowRows(rows, user) == {r \in OwnedBy(rows, user) : r.date >= SixMonthsAgo}

\* .annotate(month=TruncMonth('date')).values('month')
\*  .annotate(total=Sum('amount')).order_by('month')
MonthlyTotals(rows) ==
    LET months == SortAsc({TruncMonth(r.date) : r \in rows})
    IN  [i \in 1..Len(months) |->
            [month |-> months[i],
             total |-> SumAmount({r \in rows : TruncMonth(r.date) = months[i]})]]

\* next((float(i['total']) for i in monthly_income if label(i) == label), 0)
IncomeMatch(monthly_income, label) ==
    LET hits == {i \in 1..Len(monthly_income) :
                    MonthLabel(monthly_income[i].month) = label}
    IN  IF hits = {} THEN 0
        ELSE Float(monthly_income[CHOOSE i \in hits : \A j \in hits : i <= j].total)

\* .values('category__name', 'category__color').annotate(total=Sum('amount'))
CategoryGroups(C, rows) ==
    {[name |-> k[1], color |-> k[2],
      total |-> SumAmount({r \in rows : <<CategoryName(C, r), CategoryColor(C, r)>> = k})]
        : k \in {<<CategoryName(C, r), CategoryColor(C, r)>> : r \in rows}}

\* .order_by('-total'): every order of the groups by non-increasing total
\* (the order of groups of equal total is the database's choice).
RECURSIVE OrderByTotalDesc(_)
OrderByTotalDesc(groups) ==
    IF groups = {} THEN {<<>>}
    ELSE UNION {{<<g>> \o rest : rest \in OrderByTotalDesc(groups \ {g})} :
                   g \in {x \in groups : \A y \in groups : x.total >= y.total}}

\* category_expenses: ... .order_by('-total')[:8], each result it can have
CategoryExpenses(C, rows) == {Take(s, 8) : s \in OrderByTotalDesc(CategoryGroups(C, rows))}

\* item['category__name'] or 'Uncategorized'
PieLabel(name) == IF name = NullText \/ name = <<>> THEN <<"Uncategorized">> ELSE name
\* item['category__color'] or '#6c757d'
PieColor(color) == IF color = NullText \/ color = <<>> THEN <<"#6c757d">> ELSE color

\* pie_labels, pie_data, pie_colors of a result of category_expenses
PieChart(category_expenses) ==
    [pie_labels |-> [i \in 1..Len(category_expenses) |->
                        PieLabel(category_expenses[i].name)],
     pie_data |-> [i \in 1..Len(category_expenses) |->
                      Float(category_expenses[i].total)],
     pie_colors |-> [i \in 1..Len(category_expenses) |->
                        PieColor(category_expenses[i].color)]]

\* DateRangeFilterForm(request.GET or None).is_valid()
DateRangeFormValid(get) ==
    /\ ~(get.date_from.k = "absent" /\ get.date_to.k = "absent")
    /\ FieldOk(get.date_from)
    /\ FieldOk(get.date_to)

DashboardView(C, E, I, user, get) ==
    LET valid == DateRangeFormValid(get)
        date_from == IF valid THEN CleanField(get.date_from) ELSE None
        date_to == IF valid THEN CleanField(get.date_to) ELSE None
        summary == get_financial_summary(E, I, user, date_from, date_to)
        monthly_expenses == MonthlyTotals(WindowRows(E, user))
        monthly_income == MonthlyTotals(WindowRows(I, user))
    IN  [status |-> 200,
         form_valid |-> valid,
         total_income |-> summary.total_income,
         total_expenses |-> summary.total_expenses,
         balance |-> summary.balance,
         recent_expenses |-> Take(Ordered(OwnedBy(E, user)), 5),
         recent_income |-> Take(Ordered(OwnedBy(I, user)), 5),
         chart_labels |->
             [i \in 1..Len(monthly_expenses) |-> MonthLabel(monthly_expenses[i].month)],
         chart_expense_data |->
             [i \in 1..Len(monthly_expenses) |-> Float(monthly_expenses[i].total)],
         chart_income_data |->
             [i \in 1..Len(monthly_expenses) |->
                 IncomeMatch(monthly_income, MonthLabel(monthly_expenses[i].month))],
         category_groups |-> CategoryGroups(C, summary.expenses_qs)]

\* The context DashboardView.get can render: the figures above and the pie
\* chart of one of the orders of category_expenses.
DashboardPages(C, E, I, user, get) ==
    LET d == DashboardView(C, E, I, user, get)
    IN  {[status |-> d.status,
          form_valid |-> d.form_valid,
          total_income |-> d.total_income,
          total_expenses |-> d.total_expenses,
          balance |-> d.balance,
          recent_expenses |-> d.recent_expenses,
          recent_income |-> d.recent_income,
          chart_labels |-> d.chart_labels,
          chart_expense_data |-> d.chart_expense_data,
          chart_income_data |-> d.chart_income_data,
          category_groups |-> d.category_groups,
          pie_labels |-> PieChart(ce).pie_labels,
          pie_data |-> PieChart(ce).pie_data,
          pie_colors |-> PieChart(ce).pie_colors] :
            ce \in CategoryExpenses(C, get_financial_summary(
                       E, I, user,
                       IF d.form_valid THEN CleanField(get.date_from) ELSE None,
                       IF d.form_valid THEN CleanField(get.date_to) ELSE None).expenses_qs)}

---------------------------------------------------------------------------
(* Model forms.                                                            *)

CATEGORY_TYPES == {"expense", "income", "both"}

\* CategoryForm(POST).is_valid(): name, category_type, icon, color
CategoryFormValid(form) ==
    /\ form.name # <<>>
    /\ form.category_type \in CATEGORY_TYPES
    /\ form.icon # <<>>
    /\ form.color # <<>>

\* Mutant of CategoryChoices: the choices are not limited by category_type.
CategoryChoicesAnyType(C, user, types) == {c \in C : c.user = user}

\* Mutant of CategoryChoices: the choices are not limited to the user's own.
CategoryChoicesAnyUser(C, user, types) == {c \in C : c.category_type \in types}

\* ExpenseForm.__init__ / IncomeForm.__init__: the category choices
CategoryChoices(C, user, types) ==
    {c \in C : c.user = user /\ c.category_type \in types}

\* Mutant of AmountOk: clean_amount is missing.
AnyAmount(raw) == raw.k = "val"

\* clean_amount: DecimalField, then amount <= 0 is rejected
AmountOk(raw) == raw.k = "val" /\ ~(raw.v <= 0)

\* ExpenseForm(POST, user=user).is_valid() / IncomeForm(POST, user=user).is_valid()
TransactionFormValid(C, user, form, types) ==
    /\ form.title # <<>>
    /\ AmountOk(form.amount)
    /\ ChoiceOk(form.category, CategoryChoices(C, user, types))
    /\ form.date.k = "val"

ExpenseFormValid(C, user, form) ==
    TransactionFormValid(C, user, form, {"expense", "both"})
IncomeFormValid(C, user, form) ==
    TransactionFormValid(C, user, form, {"income", "both"})

\* form.save(): the form's fields written to the instance
FormFields(row, form) ==
    [row EXCEPT !.title = form.title,
                !.amount = form.amount.v,
                !.category = IF form.category.k = "val" THEN form.category.v
                             ELSE NoCategory,
                !.date = form.date.v,
                !.description = form.description]

NewTransaction(pk, user, now) ==
    [id |-> pk, user |-> user, title |-> <<>>, amount |-> 0, category |-> NoCategory,
     date |-> Today, description |-> <<>>, created_at |-> now]

\* get_object_or_404(Model, pk=pk, user=request.user)
Owns(rows, pk, user) == \E r \in rows : r.id = pk /\ r.user = user
GetObject(rows, pk, user) == CHOOSE r \in rows : r.id = pk /\ r.user = user

\* Mutant of SetNull: on_delete=models.CASCADE
Cascade(rows, pk) == {r \in rows : r.category # pk}

\* on_delete=models.SET_NULL
SetNull(rows, pk) ==
    {IF r.category = pk THEN [r EXCEPT !.category = NoCategory] ELSE r : r \in rows}

\* An edit request that has passed form.is_valid(): the row as
\* get_object_or_404 read it, and the form to save.
Edit(table, user, loaded, form) ==
    [table |-> table, user |-> user, loaded |-> loaded, form |-> form]

\* Mutant of Save: save(update_fields=the fields the form has changed).
SaveChangedFields(C, rows, loaded, form, now) ==
    LET instance == FormFields(loaded, form)
        stored == CHOOSE r \in rows : r.id = instance.id
        merged == [f \in DOMAIN stored |->
                      IF instance[f] # loaded[f] THEN instance[f] ELSE stored[f]]
    IN  IF \E r \in rows : r.id = instance.id
        THEN [rows |-> (rows \ {stored}) \cup {merged}, next |-> now, ok |-> TRUE]
        ELSE [rows |-> rows \cup {[instance EXCEPT !.created_at = now]},
              next |-> now + 1, ok |-> TRUE]

\* form.save() of an edit, instance.save(): an UPDATE of every column of the
\* row of the instance's primary key and, if no row has it any more, an
\* INSERT of the instance (created_at, auto_now_add, is then the time of the
\* insert: the table's counter, which moves on).  A category that is gone
\* fails the foreign key: IntegrityError, nothing is written.
Save(C, rows, loaded, form, now) ==
    LET instance == FormFields(loaded, form)
    IN  IF instance.category # NoCategory /\ ~HasCategory(C, instance.category)
        THEN [rows |-> rows, next |-> now, ok |-> FALSE]
        ELSE IF \E r \in rows : r.id = instance.id
        THEN [rows |-> {r \in rows : r.id # instance.id} \cup {instance},
              next |-> now, ok |-> TRUE]
        ELSE [rows |-> rows \cup {[instance EXCEPT !.created_at = now]},
              next |-> now + 1, ok |-> TRUE]

\* A write request and its status: 302 (saved, redirect), 200 (the form is
\* shown again with its errors), 404.
Response(op, user, pk, status) ==
    [op |-> op, user |-> user, pk |-> pk, status |-> status,
     form |-> <<>>, get |-> NoFilter, page |-> 0, body |-> <<>>]

\* The same for a request that posted a form.
FormResponse(op, user, pk, status, form) ==
    [Response(op, user, pk, status) EXCEPT !.form = form]

\* A read request and what it rendered.
ReadResponse(op, user, get, page, body) ==
    [op |-> op, user |-> user, pk |-> 0, status |-> body.status,
     form |-> <<>>, get |-> get, page |-> page, body |-> body]

---------------------------------------------------------------------------
(* Seeders: create_default_categories and the seed_data command.           *)

DEFAULT_CATEGORIES ==
    <<
      [name |-> <<"Food & Dining">>, category_type |-> "expense",
       icon |-> <<"bi-cup-hot">>, color |-> <<"#e74c3c">>],
      [name |-> <<"Transportation">>, category_type |-> "expense",
       icon |-> <<"bi-car-front">>, color |-> <<"#3498db">>],
      [name |-> <<"Shopping">>, category_type |-> "expense",
       icon |-> <<"bi-bag">>, color |-> <<"#9b59b6">>],
      [name |-> <<"Entertainment">>, category_type |-> "expense",
       icon |-> <<"bi-controller">>, color |-> <<"#e67e22">>],
      [name |-> <<"Healthcare">>, category_type |-> "expense",
       icon |-> <<"bi-heart-pulse">>, color |-> <<"#1abc9c">>],
      [name |-> <<"Utilities">>, category_type |-> "expense",
       icon |-> <<"bi-lightning">>, color |-> <<"#f1c40f">>],
      [name |-> <<"Housing">>, category_type |-> "expense",
       icon |-> <<"bi-house">>, color |-> <<"#e91e63">>],
      [name |-> <<"Education">>, category_type |-> "expense",
       icon |-> <<"bi-book">>, color |-> <<"#00bcd4">>],
      [name |-> <<"Salary">>, category_type |-> "income",
       icon |-> <<"bi-cash-stack">>, color |-> <<"#27ae60">>],
      [name |-> <<"Freelance">>, category_type |-> "income",
       icon |-> <<"bi-laptop">>, color |-> <<"#2980b9">>],
      [name |-> <<"Investment">>, category_type |-> "income",
       icon |-> <<"bi-graph-up-arrow">>, color |-> <<"#8e44ad">>],
      [name |-> <<"Other Income">>, category_type |-> "income",
       icon |-> <<"bi-plus-circle">>, color |-> <<"#16a085">>]
    >>

\* Category(user=user, **cat, is_default=True) with the next primary key
DefaultCategory(pk, user, cat) ==
    [id |-> pk, user |-> user, name |-> cat.name,
     category_type |-> cat.category_type, icon |-> cat.icon, color |-> cat.color,
     is_default |-> TRUE, created_at |-> pk]

\* Mutant of CategoryLookup: the lookup is by name alone.
CategoryLookupByName(C, user, name) == {c \in C : c.name = name}

\* The lookup of get_or_create: user=user, name=cat['name']
CategoryLookup(C, user, name) == {c \in C : c.user = user /\ c.name = name}

\* Mutant of GetOrCreate: update_or_create, the defaults written over the row
\* that is found.
UpdateOrCreate(C, found, row) ==
    IF found = {} THEN C \cup {row}
    ELSE (C \ found) \cup
         {[c EXCEPT !.category_type = row.category_type, !.icon = row.icon,
                    !.color = row.color, !.is_default = row.is_default] : c \in found}

\* Model.objects.get_or_create(**lookup, defaults=...): the table after it,
\* for the rows the lookup found (at most one) and the row to create if none
GetOrCreate(C, found, row) == IF found = {} THEN C \cup {row} ELSE C

\* The for loop of create_default_categories from DEFAULT_CATEGORIES[i] on,
\* with next the next primary key.  get_or_create raises
\* MultipleObjectsReturned when the user has two categories of the name: the
\* loop ends there (ok is FALSE) and the rows created before it stay
\* (autocommit).
RECURSIVE SeedCategories(_, _, _, _)
SeedCategories(C, user, i, next) ==
    IF i > Len(DEFAULT_CATEGORIES) THEN [rows |-> C, next |-> next, ok |-> TRUE]
    ELSE LET cat == DEFAULT_CATEGORIES[i]
             found == CategoryLookup(C, user, cat.name)
         IN  IF Cardinality(found) > 1 THEN [rows |-> C, next |-> next, ok |-> FALSE]
             ELSE SeedCategories(GetOrCreate(C, found, DefaultCategory(next, user, cat)),
                                 user, i + 1,
                                 IF found = {} THEN next + 1 ELSE next)

\* The names of the model in the order of the database's collation (binary).
NamesInOrder ==
    <<<<"Education">>, <<"Entertainment">>, <<"Food & Dining">>,
       <<"Freelance">>, <<"Healthcare">>, <<"Housing">>,
       <<"Investment">>, <<"Other Income">>, <<"Salary">>,
       <<"Shopping">>, <<"Transportation">>, <<"Uncategorized">>,
       <<"Utilities">>, <<"a">>, <<"b">>>>
NameRank(name) == CHOOSE i \in 1..Len(NamesInOrder) : NamesInOrder[i] = name

\* Category.Meta.ordering = ['name']: every order of the rows by name (the
\* order of rows of equal name is the database's choice).
RECURSIVE OrderByName(_)
OrderByName(C) ==
    IF C = {} THEN {<<>>}
    ELSE UNION {{<<c>> \o rest : rest \in OrderByName(C \ {c})} :
                   c \in {x \in C : \A y \in C : NameRank(x.name) <= NameRank(y.name)}}

\* expense_data of seed_data, the amounts in cents
SAMPLE_EXPENSES ==
    <<
      [title |-> <<"G", "r", "o", "c", "e", "r", "y", " ", "s", "h", "o", "p", "p", "i", "n", "g">>,
       amount |-> 8550],
      [title |-> <<"N", "e", "t", "f", "l", "i", "x", " ", "s", "u", "b", "s", "c", "r", "i", "p", "t", "i", "o", "n">>,
       amount |-> 1599],
      [title |-> <<"U", "b", "e", "r", " ", "r", "i", "d", "e">>,
       amount |-> 2200],
      [title |-> <<"R", "e", "s", "t", "a", "u", "r", "a", "n", "t", " ", "d", "i", "n", "n", "e", "r">>,
       amount |-> 6780],
      [title |-> <<"G", "y", "m", " ", "m", "e", "m", "b", "e", "r", "s", "h", "i", "p">>,
       amount |-> 4500],
      [title |-> <<"E", "l", "e", "c", "t", "r", "i", "c", " ", "b", "i", "l", "l">>,
       amount |-> 12000],
      [title |-> <<"C", "o", "f", "f", "e", "e", " ", "&", " ", "s", "n", "a", "c", "k", "s">>,
       amount |-> 1850],
      [title |-> <<"O", "n", "l", "i", "n", "e", " ", "c", "o", "u", "r", "s", "e">>,
       amount |-> 4999],
      [title |-> <<"M", "e", "d", "i", "c", "i", "n", "e">>,
       amount |-> 3200],
      [title |-> <<"B", "o", "o", "k", "s">>,
       amount |-> 2800]
    >>

\* income_data of seed_data, the amounts in cents
SAMPLE_INCOME ==
    <<
      [title |-> <<"M", "o", "n", "t", "h", "l", "y", " ", "S", "a", "l", "a", "r", "y">>,
       amount |-> 350000],
      [title |-> <<"F", "r", "e", "e", "l", "a", "n", "c", "e", " ", "P", "r", "o", "j", "e", "c", "t">>,
       amount |-> 80000],
      [title |-> <<"I", "n", "v", "e", "s", "t", "m", "e", "n", "t", " ", "D", "i", "v", "i", "d", "e", "n", "d">>,
       amount |-> 15000],
      [title |-> <<"B", "o", "n", "u", "s">>,
       amount |-> 50000]
    >>

SampleExpensePrefix == <<"S", "a", "m", "p", "l", "e", " ", "e", "x", "p", "e", "n", "s", "e", ":", " ">>
SampleIncomePrefix == <<"S", "a", "m", "p", "l", "e", " ", "i", "n", "c", "o", "m", "e", ":", " ">>

\* One of the two for loops of seed_data from data[i] on: get_or_create by
\* (user, title) with the category cats[i % count] (i counted from 0), or none
\* if there is no category, and the date today - offsets[i].
RECURSIVE SeedRows(_, _, _, _, _, _, _, _)
SeedRows(rows, user, data, cats, offsets, prefix, i, next) ==
    IF i > Len(data) THEN [rows |-> rows, next |-> next, ok |-> TRUE]
    ELSE LET found == {r \in rows : r.user = user /\ r.title = data[i].title}
             row == [id |-> next, user |-> user, title |-> data[i].title,
                     amount |-> data[i].amount,
                     category |-> IF Len(cats) > 0
                                  THEN cats[((i - 1) % Len(cats)) + 1].id
                                  ELSE NoCategory,
                     date |-> Today - offsets[i],
                     description |-> prefix \o data[i].title,
                     created_at |-> next]
         IN  IF Cardinality(found) > 1 THEN [rows |-> rows, next |-> next, ok |-> FALSE]
             ELSE SeedRows(GetOrCreate(rows, found, row), user, data, cats, offsets,
                           prefix, i + 1, IF found = {} THEN next + 1 ELSE next)

---------------------------------------------------------------------------
(* The state after construction: empty tables, the users registered.       *)

Init ==
    /\ categories = {}
    /\ expenses = {}
    /\ incomes = {}
    /\ nextCategory = 1
    /\ nextExpense = 1
    /\ nextIncome = 1
    /\ pending = {}
    /\ users = Users
    /\ emails = [u \in Users |-> UserEmails[u]]
    /\ profiles = [u \in Users |-> DefaultCurrency]
    /\ resp = Response("none", 0, 0, 0)

---------------------------------------------------------------------------
(* Category CRUD.                                                          *)

CategoryCreateView(user, form) ==
    /\ IF CategoryFormValid(form)
       THEN /\ categories' = categories \cup
                   {[id |-> nextCategory, user |-> user, name |-> form.name,
                     category_type |-> form.category_type, icon |-> form.icon,
                     color |-> form.color, is_default |-> FALSE,
                     created_at |-> nextCategory]}
            /\ nextCategory' = nextCategory + 1
            /\ resp' = FormResponse("category_create", user, nextCategory, 302, form)
       ELSE /\ resp' = FormResponse("category_create", user, 0, 200, form)
            /\ UNCHANGED <<categories, nextCategory>>
    /\ UNCHANGED <<expenses, incomes, nextExpense, nextIncome, pending, users, emails, profiles>>

CategoryUpdateView(user, pk, form) ==
    /\ IF ~Owns(categories, pk, user)
       THEN /\ resp' = FormResponse("category_update", user, pk, 404, form)
            /\ UNCHANGED categories
       ELSE IF CategoryFormValid(form)
       THEN /\ categories' = (categories \ {GetObject(categories, pk, user)}) \cup
                   {[GetObject(categories, pk, user) EXCEPT
                        !.name = form.name,
                        !.category_type = form.category_type,
                        !.icon = form.icon,
                        !.color = form.color]}
            /\ resp' = FormResponse("category_update", user, pk, 302, form)
       ELSE /\ resp' = FormResponse("category_update", user, pk, 200, form)
            /\ UNCHANGED categories
    /\ UNCHANGED <<expenses, incomes, nextCategory, nextExpense, nextIncome, pending, users, emails, profiles>>

CategoryDeleteView(user, pk) ==
    /\ IF ~Owns(categories, pk, user)
       THEN /\ resp' = Response("category_delete", user, pk, 404)
            /\ UNCHANGED <<categories, expenses, incomes>>
       ELSE /\ categories' = categories \ {GetObject(categories, pk, user)}
            /\ expenses' = SetNull(expenses, pk)
            /\ incomes' = SetNull(incomes, pk)
            /\ resp' = Response("category_delete", user, pk, 302)
    /\ UNCHANGED <<nextCategory, nextExpense, nextIncome, pending, users, emails, profiles>>

---------------------------------------------------------------------------
(* Expense CRUD.                                                           *)

ExpenseCreateView(user, form) ==
    /\ IF ExpenseFormValid(categories, user, form)
       THEN /\ expenses' = expenses \cup
                   {FormFields(NewTransaction(nextExpense, user, nextExpense), form)}
            /\ nextExpense' = nextExpense + 1
            /\ resp' = FormResponse("expense_create", user, nextExpense, 302, form)
       ELSE /\ resp' = FormResponse("expense_create", user, 0, 200, form)
            /\ UNCHANGED <<expenses, nextExpense>>
    /\ UNCHANGED <<categories, incomes, nextCategory, nextIncome, pending, users, emails, profiles>>

ExpenseUpdateView(user, pk, form) ==
    /\ IF ~Owns(expenses, pk, user)
       THEN /\ resp' = FormResponse("expense_update", user, pk, 404, form)
            /\ UNCHANGED expenses
       ELSE IF ExpenseFormValid(categories, user, form)
       THEN /\ expenses' = (expenses \ {GetObject(expenses, pk, user)}) \cup
                   {FormFields(GetObject(expenses, pk, user), form)}
            /\ resp' = FormResponse("expense_update", user, pk, 302, form)
       ELSE /\ resp' = FormResponse("expense_update", user, pk, 200, form)
            /\ UNCHANGED expenses
    /\ UNCHANGED <<categories, incomes, nextCategory, nextExpense, nextIncome, pending, users, emails, profiles>>

ExpenseDeleteView(user, pk) ==
    /\ IF ~Owns(expenses, pk, user)
       THEN /\ resp' = Response("expense_delete", user, pk, 404)
            /\ UNCHANGED expenses
       ELSE /\ expenses' = expenses \ {GetObject(expenses, pk, user)}
            /\ resp' = Response("expense_delete", user, pk, 302)
    /\ UNCHANGED <<categories, incomes, nextCategory, nextExpense, nextIncome, pending, users, emails, profiles>>

---------------------------------------------------------------------------
(* Income CRUD.                                                            *)

IncomeCreateView(user, form) ==
    /\ IF IncomeFormValid(categories, user, form)
       THEN /\ incomes' = incomes \cup
                   {FormFields(NewTransaction(nextIncome, user, nextIncome), form)}
            /\ nextIncome' = nextIncome + 1
            /\ resp' = FormResponse("income_create", user, nextIncome, 302, form)
       ELSE /\ resp' = FormResponse("income_create", user, 0, 200, form)
            /\ UNCHANGED <<incomes, nextIncome>>
    /\ UNCHANGED <<categories, expenses, nextCategory, nextExpense, pending, users, emails, profiles>>

IncomeUpdateView(user, pk, form) ==
    /\ IF ~Owns(incomes, pk, user)
       THEN /\ resp' = FormResponse("income_update", user, pk, 404, form)
            /\ UNCHANGED incomes
       ELSE IF IncomeFormValid(categories, user, form)
       THEN /\ incomes' = (incomes \ {GetObject(incomes, pk, user)}) \cup
                   {FormFields(GetObject(incomes, pk, user), form)}
            /\ resp' = FormResponse("income_update", user, pk, 302, form)
       ELSE /\ resp' = FormResponse("income_update", user, pk, 200, form)
            /\ UNCHANGED incomes
    /\ UNCHANGED <<categories, expenses, nextCategory, nextExpense, nextIncome, pending, users, emails, profiles>>

IncomeDeleteView(user, pk) ==
    /\ IF ~Owns(incomes, pk, user)
       THEN /\ resp' = Response("income_delete", user, pk, 404)
            /\ UNCHANGED incomes
       ELSE /\ incomes' = incomes \ {GetObject(incomes, pk, user)}
            /\ resp' = Response("income_delete", user, pk, 302)
    /\ UNCHANGED <<categories, expenses, nextCategory, nextExpense, nextIncome, pending, users, emails, profiles>>

---------------------------------------------------------------------------
(* Edits step by step, for requests that run concurrently.  The request of *)
(* ExpenseUpdateView.post reads the row (get_object_or_404), validates the *)
(* form (which reads the categories) and, if it is valid, saves: the row   *)
(* read serves for its primary key, user and created_at only, which no     *)
(* request changes, so the read and the validation are one step here and   *)
(* the save another.  A request that is answered 404 or with the form's    *)
(* errors writes nothing and is ExpenseUpdateView above.                   *)

ExpenseUpdateIsValid(user, pk, form) ==
    /\ Owns(expenses, pk, user)
    /\ ExpenseFormValid(categories, user, form)
    /\ pending' = pending \cup {Edit("expense", user, GetObject(expenses, pk, user), form)}
    /\ UNCHANGED <<categories, expenses, incomes, nextCategory, nextExpense,
                   nextIncome, users, emails, profiles, resp>>

ExpenseUpdateSave(edit) ==
    LET saved == Save(categories, expenses, edit.loaded, edit.form, nextExpense)
    IN  /\ edit \in pending
        /\ edit.table = "expense"
        /\ pending' = pending \ {edit}
        /\ expenses' = saved.rows
        /\ nextExpense' = saved.next
        /\ resp' = FormResponse("expense_update", edit.user, edit.loaded.id,
                                IF saved.ok THEN 302 ELSE 500, edit.form)
        /\ UNCHANGED <<categories, incomes, nextCategory, nextIncome, users, emails, profiles>>

IncomeUpdateIsValid(user, pk, form) ==
    /\ Owns(incomes, pk, user)
    /\ IncomeFormValid(categories, user, form)
    /\ pending' = pending \cup {Edit("income", user, GetObject(incomes, pk, user), form)}
    /\ UNCHANGED <<categories, expenses, incomes, nextCategory, nextExpense,
                   nextIncome, users, emails, profiles, resp>>

IncomeUpdateSave(edit) ==
    LET saved == Save(categories, incomes, edit.loaded, edit.form, nextIncome)
    IN  /\ edit \in pending
        /\ edit.table = "income"
        /\ pending' = pending \ {edit}
        /\ incomes' = saved.rows
        /\ nextIncome' = saved.next
        /\ resp' = FormResponse("income_update", edit.user, edit.loaded.id,
                                IF saved.ok THEN 302 ELSE 500, edit.form)
        /\ UNCHANGED <<categories, expenses, nextCategory, nextExpense, users, emails, profiles>>

---------------------------------------------------------------------------
(* Seeding.                                                                *)

\* create_default_categories(user), as RegisterView.post and seed_data call
\* it: 302 when it returned, 500 when it raised.
create_default_categories(user) ==
    LET seeded == SeedCategories(categories, user, 1, nextCategory)
    IN  /\ categories' = seeded.rows
        /\ nextCategory' = seeded.next
        /\ resp' = Response("create_default_categories", user, 0,
                            IF seeded.ok THEN 302 ELSE 500)
        /\ UNCHANGED <<expenses, incomes, nextExpense, nextIncome, pending, users, emails, profiles>>

\* manage.py seed_data: the user 'demo' (with the default categories when it
\* is created), then the sample expenses and the sample income;
\* expense_days[i] and income_days[i] are the values of random.randint for
\* the i-th row.  The exit status is 0, or 1 when get_or_create raised.
seed_data(expense_days, income_days) ==
    LET created == DemoUser \notin users
        seeded == IF created THEN SeedCategories(categories, DemoUser, 1, nextCategory)
                  ELSE [rows |-> categories, next |-> nextCategory, ok |-> TRUE]
    IN  \E cats \in OrderByName({c \in seeded.rows : c.user = DemoUser
                                      /\ c.category_type = "expense"}),
           income_categories \in OrderByName({c \in seeded.rows : c.user = DemoUser
                                      /\ c.category_type = "income"}) :
            LET e == IF seeded.ok
                     THEN SeedRows(expenses, DemoUser, SAMPLE_EXPENSES, cats,
                                   expense_days, SampleExpensePrefix, 1, nextExpense)
                     ELSE [rows |-> expenses, next |-> nextExpense, ok |-> FALSE]
                i == IF e.ok
                     THEN SeedRows(incomes, DemoUser, SAMPLE_INCOME, income_categories,
                                   income_days, SampleIncomePrefix, 1, nextIncome)
                     ELSE [rows |-> incomes, next |-> nextIncome, ok |-> FALSE]
            IN  /\ users' = users \cup {DemoUser}
                /\ emails' = IF created
                             THEN [u \in users \cup {DemoUser} |->
                                      IF u = DemoUser THEN DemoEmail ELSE emails[u]]
                             ELSE emails
                /\ profiles' = IF created
                               THEN [u \in DOMAIN profiles \cup {DemoUser} |->
                                        IF u = DemoUser THEN DefaultCurrency
                                        ELSE profiles[u]]
                               ELSE profiles
                /\ categories' = seeded.rows
                /\ nextCategory' = seeded.next
                /\ expenses' = e.rows
                /\ nextExpense' = e.next
                /\ incomes' = i.rows
                /\ nextIncome' = i.next
                /\ resp' = Response("seed_data", DemoUser, 0, IF i.ok THEN 0 ELSE 1)
                /\ UNCHANGED pending

---------------------------------------------------------------------------
(* Accounts: RegisterView and ProfileView.  A user's email is a string: "" *)
(* when the field is not posted.  The username and the names, which the    *)
(* model does not hold, are taken to pass (the username is a new one).     *)

\* forms.EmailField(required=True).clean: a value, and one that
\* EmailValidator accepts (a local part, '@', a domain).
IsEmail(email) == email \notin {"", "nobody", "nobody@"}

\* UserRegisterForm.clean_email
clean_email(E, email) == ~(\E u \in DOMAIN E : E[u] = email)

\* UserRegisterForm.is_valid(): the email field and clean_email, and
\* UserCreationForm.clean_password2 (the two passwords are the same).
UserRegisterFormValid(E, form) ==
    /\ IsEmail(form.email)
    /\ clean_email(E, form.email)
    /\ form.password1 # ""
    /\ form.password1 = form.password2

\* UserUpdateForm.is_valid(): the email field (auth.User.email is not
\* unique, so the ModelForm's validate_unique has nothing to check).
UserUpdateFormValid(form) == IsEmail(form.email)

\* ProfileUpdateForm.is_valid(): currency, a CharField(max_length=10) that
\* is required; no picture is posted.
ProfileUpdateFormValid(form) ==
    /\ form.currency # <<>>
    /\ Len(form.currency) <= 10

\* The primary key of the next User row.  The keys are opaque; the one of
\* 'demo' is kept for it.
NewUser(U) ==
    LET taken == U \cup {DemoUser}
    IN  (CHOOSE u \in taken : \A v \in taken : v <= u) + 1

\* f with the value x at the key k, old or new.
With(f, k, x) == [j \in DOMAIN f \cup {k} |-> IF j = k THEN x ELSE f[j]]

\* RegisterView.post
RegisterView(form) ==
    /\ IF UserRegisterFormValid(emails, form)
       THEN LET user == NewUser(users)
                seeded == SeedCategories(categories, user, 1, nextCategory)
            IN  /\ users' = users \cup {user}
                /\ emails' = With(emails, user, form.email)
                /\ profiles' = With(profiles, user, DefaultCurrency)
                /\ categories' = seeded.rows
                /\ nextCategory' = seeded.next
                /\ resp' = FormResponse("register", user, user,
                                        IF seeded.ok THEN 302 ELSE 500, form)
       ELSE /\ resp' = FormResponse("register", 0, 0, 200, form)
            /\ UNCHANGED <<users, emails, profiles, categories, nextCategory>>
    /\ UNCHANGED <<expenses, incomes, nextExpense, nextIncome, pending>>

\* ProfileView.post
ProfileView(user, form) ==
    LET profile == IF user \in DOMAIN profiles THEN profiles
                   ELSE With(profiles, user, DefaultCurrency)
    IN  /\ user \in users
        /\ IF UserUpdateFormValid(form) /\ ProfileUpdateFormValid(form)
           THEN /\ emails' = With(emails, user, form.email)
                /\ profiles' = With(profile, user, form.currency)
                /\ resp' = FormResponse("profile", user, user, 302, form)
           ELSE /\ emails' = emails
                /\ profiles' = profile
                /\ resp' = FormResponse("profile", user, user, 200, form)
        /\ UNCHANGED <<categories, expenses, incomes, nextCategory, nextExpense,
                       nextIncome, pending, users>>

---------------------------------------------------------------------------
(* Read requests.                                                          *)

tables == <<categories, expenses, incomes, nextCategory, nextExpense, nextIncome,
            pending, users, emails, profiles>>

DashboardGet(user, get) ==
    /\ \E page \in DashboardPages(categories, expenses, incomes, user, get) :
           resp' = ReadResponse("dashboard", user, get, 0, page)
    /\ UNCHANGED tables

ExpenseListGet(user, get, page) ==
    /\ resp' = ReadResponse("expense_list", user, get, page,
                            ExpenseList(categories, expenses, user, get, page))
    /\ UNCHANGED tables

IncomeListGet(user, page) ==
    /\ resp' = ReadResponse("income_list", user, NoFilter, page,
                            IncomeList(incomes, user, page))
    /\ UNCHANGED tables

ExportExpensesCSV(user) ==
    /\ resp' = ReadResponse("export_expenses", user, NoFilter, 0,
                            ExportCsv(categories, expenses, user))
    /\ UNCHANGED tables

ExportIncomeCSV(user) ==
    /\ resp' = ReadResponse("export_income", user, NoFilter, 0,
                            ExportCsv(categories, incomes, user))
    /\ UNCHANGED tables

---------------------------------------------------------------------------
(* Spec: every view, two users, a narrow range of field values.            *)

Pks(max) == 1..max

\* The inputs of a create request while the table's counter is within the
\* bound, none after.
Room(counter, max, inputs) == IF counter <= max THEN inputs ELSE {}

CategoryForm(name, type) ==
    [name |-> name, category_type |-> type, icon |-> <<"i">>, color |-> <<"c">>]

TransactionForm(title, amount, category, date, description) ==
    [title |-> title, amount |-> amount, category |-> category, date |-> date,
     description |-> description]

CategoryForms == {CategoryForm(n, "both") : n \in {<<"a">>, <<"b">>}}

\* An amount of 1.00 without a category, of 2.50 with one, and the amounts 0
\* and -1.00.
TransactionForms ==
    {TransactionForm(<<"t">>, Val(a), Absent, Val(350), <<>>) : a \in {100, 0, -100}}
    \cup {TransactionForm(<<"t">>, Val(250), Val(pk), Val(350), <<>>) :
              pk \in Pks(MaxCategories)}

CategoryGets == {[NoFilter EXCEPT !.category = c] :
                    c \in {Absent} \cup {Val(pk) : pk \in Pks(MaxCategories)}}

Next ==
    \/ \E u \in Users, f \in Room(nextCategory, MaxCategories, CategoryForms) :
           CategoryCreateView(u, f)
    \/ \E u \in Users, pk \in Pks(MaxCategories), f \in CategoryForms :
           CategoryUpdateView(u, pk, f)
    \/ \E u \in Users, pk \in Pks(MaxCategories) : CategoryDeleteView(u, pk)
    \/ \E u \in Users, f \in Room(nextExpense, MaxExpenses, TransactionForms) :
           ExpenseCreateView(u, f)
    \/ \E u \in Users, pk \in Pks(MaxExpenses), f \in TransactionForms :
           ExpenseUpdateView(u, pk, f)
    \/ \E u \in Users, pk \in Pks(MaxExpenses) : ExpenseDeleteView(u, pk)
    \/ \E u \in Users, f \in Room(nextIncome, MaxIncomes, TransactionForms) :
           IncomeCreateView(u, f)
    \/ \E u \in Users, pk \in Pks(MaxIncomes), f \in TransactionForms :
           IncomeUpdateView(u, pk, f)
    \/ \E u \in Users, pk \in Pks(MaxIncomes) : IncomeDeleteView(u, pk)
    \/ \E u \in Users : DashboardGet(u, NoFilter)
    \/ \E u \in Users, g \in CategoryGets : ExpenseListGet(u, g, 1)
    \/ \E u \in Users : IncomeListGet(u, 1)
    \/ \E u \in Users : ExportExpensesCSV(u)
    \/ \E u \in Users : ExportIncomeCSV(u)

Spec == Init /\ [][Next]_vars

---------------------------------------------------------------------------
(* SpecDash: one user's expenses and incomes over the dates of the model,  *)
(* and the dashboard with every kind of date range.                        *)

DashUser == CHOOSE u \in Users : \A v \in Users : u <= v

ExpenseDashForms ==
    {TransactionForm(<<"t">>, Val(a), Absent, Val(d), <<>>) :
        a \in {3000, 5000}, d \in Dates}
IncomeDashForms ==
    {TransactionForm(<<"t">>, Val(100000), Absent, Val(d), <<>>) : d \in Dates}

RangeParams == {Absent, Malformed, Val(205), Val(375)}
DashGets == {[NoFilter EXCEPT !.date_from = f, !.date_to = t] :
                f \in RangeParams, t \in RangeParams}

NextDash ==
    \/ \E f \in Room(nextExpense, MaxExpenses, ExpenseDashForms) :
           ExpenseCreateView(DashUser, f)
    \/ \E pk \in Pks(MaxExpenses), f \in ExpenseDashForms :
           ExpenseUpdateView(DashUser, pk, f)
    \/ \E pk \in Pks(MaxExpenses) : ExpenseDeleteView(DashUser, pk)
    \/ \E f \in Room(nextIncome, MaxIncomes, IncomeDashForms) :
           IncomeCreateView(DashUser, f)
    \/ \E pk \in Pks(MaxIncomes), f \in IncomeDashForms :
           IncomeUpdateView(DashUser, pk, f)
    \/ \E pk \in Pks(MaxIncomes) : IncomeDeleteView(DashUser, pk)
    \/ \E g \in DashGets : DashboardGet(DashUser, g)

SpecDash == Init /\ [][NextDash]_vars

---------------------------------------------------------------------------
(* SpecFilter: one user's expenses with varied text, amount, date and      *)
(* category, a category of either user, and the expense list under every   *)
(* request with at most two parameters supplied.                           *)

\* title and description: the search term "b" is in the title of the first
\* (as "B"), in the description of the second, in neither of the third.
ExpenseFilterForms ==
    {TransactionForm(x[1], Val(a), x[3], Val(d), x[2]) :
        x \in {<<(<<"A", "B">>), <<>>, Absent>>,
               <<(<<"c">>), (<<"a", "b">>), Val(1)>>,
               <<(<<"c">>), <<>>, Absent>>},
        a \in {100, 250}, d \in {350, 375}}

\* One supplied parameter: a value, or a malformed value (for the category,
\* a key that is no category).
OneParam ==
    {[NoFilter EXCEPT !.search = <<"b">>]}
    \cup {[NoFilter EXCEPT !.category = Val(pk)] : pk \in Pks(MaxCategories + 1)}
    \cup {[NoFilter EXCEPT !.date_from = v] : v \in {Val(375), Malformed}}
    \cup {[NoFilter EXCEPT !.date_to = v] : v \in {Val(350)}}
    \cup {[NoFilter EXCEPT !.amount_min = v] : v \in {Val(250), Malformed}}
    \cup {[NoFilter EXCEPT !.amount_max = v] : v \in {Val(100), Val(0)}}

FilterFields == {"search", "category", "date_from", "date_to", "amount_min", "amount_max"}

\* The fields a request supplies.
Supplied(get) == {k \in FilterFields : get[k] # NoFilter[k]}

\* The request that supplies the parameters of both (of g where both do).
Together(g, h) == [k \in FilterFields |-> IF g[k] # NoFilter[k] THEN g[k] ELSE h[k]]

FilterGets ==
    {NoFilter} \cup OneParam
    \cup {Together(g, h) : g \in OneParam, h \in OneParam}

NextFilter ==
    \/ \E u \in Room(nextCategory, MaxCategories, Users) :
           CategoryCreateView(u, CategoryForm(<<"a">>, "expense"))
    \/ \E f \in Room(nextExpense, MaxExpenses, ExpenseFilterForms) :
           ExpenseCreateView(DashUser, f)
    \/ \E pk \in Pks(MaxExpenses), f \in ExpenseFilterForms :
           ExpenseUpdateView(DashUser, pk, f)
    \/ \E pk \in Pks(MaxExpenses) : ExpenseDeleteView(DashUser, pk)
    \/ \E g \in FilterGets, page \in 1..2 : ExpenseListGet(DashUser, g, page)

SpecFilter == Init /\ [][NextFilter]_vars

---------------------------------------------------------------------------
(* SpecPie: one user's categories (two of them, of a common or of          *)
(* different names, one possibly named "Uncategorized", of type expense or *)
(* income), expenses and an income with and without a category, and the    *)
(* dashboard.                                                              *)

PieCategoryForms ==
    {[name |-> x[1], category_type |-> t, icon |-> <<"i">>, color |-> x[2]] :
        x \in {<<(<<"a">>), (<<"c">>)>>, <<(<<"Uncategorized">>), (<<"#6c757d">>)>>},
        t \in {"expense", "income"}}

PieForms ==
    {TransactionForm(<<"t">>, Val(100), Absent, Val(350), <<>>)} \cup
    {TransactionForm(<<"t">>, Val(250), Val(pk), Val(350), <<>>) :
        pk \in Pks(MaxPieCategories)}

NextPie ==
    \/ \E f \in Room(nextCategory, MaxPieCategories, PieCategoryForms) :
           CategoryCreateView(DashUser, f)
    \/ \E pk \in Pks(MaxPieCategories), f \in PieCategoryForms :
           CategoryUpdateView(DashUser, pk, f)
    \/ \E f \in Room(nextExpense, MaxPieExpenses, PieForms) :
           ExpenseCreateView(DashUser, f)
    \/ \E pk \in Pks(MaxPieExpenses), f \in PieForms :
           ExpenseUpdateView(DashUser, pk, f)
    \/ \E f \in Room(nextIncome, MaxIncomes, PieForms) :
           IncomeCreateView(DashUser, f)
    \/ \E pk \in Pks(MaxIncomes), f \in PieForms :
           IncomeUpdateView(DashUser, pk, f)
    \/ DashboardGet(DashUser, NoFilter)

SpecPie == Init /\ [][NextPie]_vars

---------------------------------------------------------------------------
(* SpecSeed: create_default_categories called for a registered user (any   *)
(* number of times), the seed_data command, and between them the user and  *)
(* the user 'demo' creating a category, editing the categories 1 and 2,    *)
(* posting expenses that name a category of either user, and listing       *)
(* expenses by category.                                                   *)

\* The users that act in SpecSeed: the first registered user, and 'demo' once
\* the command has created it.
SeedUsers == {u \in users : u \in {DashUser, DemoUser}}

\* An edit that renames, and an edit that keeps the name of the first default
\* category and changes its type, icon and color.
SeedCategoryForms ==
    {CategoryForm(<<"a">>, "expense"),
     CategoryForm(DEFAULT_CATEGORIES[1].name, "both")}

\* The primary keys of the first category of either user: 1 and 2 when one
\* was created through the view first, 1 and 13 otherwise.
SeedCategoryPks == {1, 2, 13}

SeedForms ==
    {TransactionForm(<<"t">>, Val(100), Absent, Val(350), <<>>)} \cup
    {TransactionForm(<<"t">>, Val(250), Val(pk), Val(350), <<>>) :
        pk \in SeedCategoryPks}

\* random.randint(0, 60) of the ten sample expenses and random.randint(0, 30)
\* of the four incomes: the greatest and the least everywhere, or alternately.
SeedExpenseDays ==
    {[i \in 1..Len(SAMPLE_EXPENSES) |-> 60],
     [i \in 1..Len(SAMPLE_EXPENSES) |-> IF i % 2 = 0 THEN 0 ELSE 60]}
SeedIncomeDays == {[i \in 1..Len(SAMPLE_INCOME) |-> IF i % 2 = 0 THEN 30 ELSE 0]}

SeedGets == {[NoFilter EXCEPT !.category = Val(pk)] : pk \in SeedCategoryPks}

NextSeed ==
    \/ \E u \in Room(nextCategory, MaxSeedCategories, SeedUsers) :
           create_default_categories(u)
    \/ \E e \in Room(nextExpense, MaxSeedExpenses, SeedExpenseDays),
          i \in SeedIncomeDays : seed_data(e, i)
    \/ \E u \in SeedUsers, f \in Room(nextCategory, MaxCategories, SeedCategoryForms) :
           CategoryCreateView(u, f)
    \/ \E u \in SeedUsers, pk \in {1, 2}, f \in SeedCategoryForms :
           CategoryUpdateView(u, pk, f)
    \/ \E u \in SeedUsers, f \in Room(nextExpense, MaxSeedPosts, SeedForms) :
           ExpenseCreateView(u, f)
    \/ \E u \in SeedUsers, f \in SeedForms : ExpenseUpdateView(u, 1, f)
    \/ \E u \in SeedUsers, g \in SeedGets : ExpenseListGet(u, g, 1)

SpecSeed == Init /\ [][NextSeed]_vars

---------------------------------------------------------------------------
(* SpecRecent: one user with up to six expenses and six incomes on two     *)
(* dates, posted in any order of the dates, the first two editable and     *)
(* deletable; the lists page by page, unfiltered and filtered, and the     *)
(* dashboard.                                                              *)

RecentForms ==
    {TransactionForm(<<"t">>, Val(a), Absent, Val(d), <<>>) :
        a \in {100}, d \in {350, 375}}

RecentIncomeForms == {TransactionForm(<<"t">>, Val(100), Absent, Val(350), <<>>)}

RecentGets ==
    {NoFilter,
     [NoFilter EXCEPT !.date_from = Val(375)],
     [NoFilter EXCEPT !.date_to = Val(350), !.amount_min = Val(100)],
     [NoFilter EXCEPT !.search = <<"T">>, !.amount_max = Val(100),
                      !.date_from = Val(350)]}

NextRecent ==
    \/ \E f \in Room(nextExpense, MaxRecent, RecentForms) :
           ExpenseCreateView(DashUser, f)
    \/ \E pk \in 1..2, f \in RecentForms : ExpenseUpdateView(DashUser, pk, f)
    \/ \E pk \in 1..2 : ExpenseDeleteView(DashUser, pk)
    \/ \E f \in Room(nextIncome, MaxRecent, RecentIncomeForms) :
           IncomeCreateView(DashUser, f)
    \/ \E g \in RecentGets, page \in 1..MaxRecent : ExpenseListGet(DashUser, g, page)
    \/ \E page \in 1..MaxRecent : IncomeListGet(DashUser, page)
    \/ DashboardGet(DashUser, NoFilter)

SpecRecent == Init /\ [][NextRecent]_vars

---------------------------------------------------------------------------
(* SpecEdit: one user's expenses and an income, edit requests of them that *)
(* run concurrently (up to MaxPending between validation and save), and    *)
(* deletions.  The forms differ from one another in one field or in two,   *)
(* so that an edit leaves some fields as they were.                        *)

EditForms ==
    {TransactionForm(<<"t">>, Val(100), Absent, Val(350), <<>>),
     TransactionForm(<<"t">>, Val(250), Absent, Val(350), <<>>),
     TransactionForm(<<"b">>, Val(100), Absent, Val(375), <<>>)}

\* The forms an edit request can post while fewer than MaxPending requests
\* are in flight and the table's counter is within MaxEditClock.
EditRoom(counter) ==
    IF Cardinality(pending) < MaxPending THEN Room(counter, MaxEditClock, EditForms)
    ELSE {}

NextEdit ==
    \/ \E f \in Room(nextExpense, MaxExpenses, EditForms) :
           ExpenseCreateView(DashUser, f)
    \/ \E pk \in Pks(MaxExpenses), f \in EditRoom(nextExpense) :
           ExpenseUpdateIsValid(DashUser, pk, f)
    \/ \E edit \in pending : ExpenseUpdateSave(edit)
    \/ \E pk \in Pks(MaxExpenses) : ExpenseDeleteView(DashUser, pk)
    \/ \E f \in Room(nextIncome, MaxIncomes, EditForms) :
           IncomeCreateView(DashUser, f)
    \/ \E pk \in Pks(MaxIncomes), f \in EditRoom(nextIncome) :
           IncomeUpdateIsValid(DashUser, pk, f)
    \/ \E edit \in pending : IncomeUpdateSave(edit)
    \/ \E pk \in Pks(MaxIncomes) : IncomeDeleteView(DashUser, pk)

SpecEdit == Init /\ [][NextEdit]_vars

---------------------------------------------------------------------------
(* SpecUsers: registrations and profile updates, with emails that are new, *)
(* taken, missing or malformed.                                            *)

RegisterForms ==
    {[email |-> e, password1 |-> "p", password2 |-> q] :
        e \in {"u1@x.io", "n1@x.io", "n2@x.io", "", "nobody"}, q \in {"p", "q"}}

ProfileForms ==
    {[email |-> e, currency |-> c] :
        e \in {"u1@x.io", "u2@x.io", "n1@x.io", "nobody"},
        c \in {<<"$">>, <<"R", "s">>, <<>>}}

NextUsers ==
    \/ \E f \in Room(NewUser(users), MaxUsers, RegisterForms) : RegisterView(f)
    \/ \E u \in users, f \in ProfileForms : ProfileView(u, f)

SpecUsers == Init /\ [][NextUsers]_vars

---------------------------------------------------------------------------
(* Properties.                                                             *)

\* The rows of a table that belong to a user.
Mine(rows, user) == {r \in rows : user = r.user}

\* Everything a user can read of the given tables: dashboard, lists (every
\* category filter), exports.
ReadResults(C, E, I, user) ==
    [dashboard |-> DashboardView(C, E, I, user, NoFilter),
     expense_list |-> [g \in CategoryGets |-> ExpenseList(C, E, user, g, 1)],
     income_list |-> IncomeList(I, user, 1),
     export_expenses |-> ExportCsv(C, E, user),
     export_income |-> ExportCsv(C, I, user)]

\* The table a request with a primary key addresses.
TableOf(op) ==
    IF op \in {"expense_update", "expense_delete"} THEN expenses
    ELSE IF op \in {"income_update", "income_delete"} THEN incomes
    ELSE IF op \in {"category_update", "category_delete"} THEN categories
    ELSE {}

\* The request just answered named a row of another user.
ForeignRow(r) == \E row \in TableOf(r.op) : row.id = r.pk /\ row.user # r.user

\* What each user reads is what the views compute from the user's rows alone.
C1_Scoped ==
    \A u \in Users :
        ReadResults(categories, expenses, incomes, u)
            = ReadResults(Mine(categories, u), Mine(expenses, u), Mine(incomes, u), u)

\* A request that names another user's row answers 404 and changes nothing;
\* a request that changes the tables changes no other user's results.
C1_Step ==
    /\ ForeignRow(resp') => resp'.status = 404 /\ store' = store
    /\ store' # store =>
          \A u \in Users \ {resp'.user} :
              ReadResults(categories', expenses', incomes', u)
                  = ReadResults(categories, expenses, incomes, u)

\* C1: what a user reads is computed from the user's own rows only; an edit
\* or delete that names another user's row answers 404 and changes nothing;
\* and no request of one user changes what another user reads.
C1_UserIsolation == []C1_Scoped /\ [][C1_Step]_vars

\* C1 witness: a user's edit of another user's expense was answered 404
\* while both users hold expenses.
C1_Witness ==
    /\ resp.op = "expense_update"
    /\ resp.status = 404
    /\ ForeignRow(resp)
    /\ \A u \in Users : Mine(expenses, u) # {}

---------------------------------------------------------------------------
(* Summary Engine properties.                                              *)

\* The date bounds a caller can pass: None or a date.
DateBounds == {None} \cup {Val(d) : d \in Dates}

\* d lies in [date_from, date_to], each bound applied only if supplied.
InRange(d, date_from, date_to) ==
    /\ date_from.k = "val" => date_from.v <= d
    /\ date_to.k = "val" => d <= date_to.v

\* The amount the row with primary key pk adds to the user's total.
AmountOfPk(rows, pk, user, date_from, date_to) ==
    IF \E r \in rows : r.id = pk /\ r.user = user /\ InRange(r.date, date_from, date_to)
    THEN (CHOOSE r \in rows : r.id = pk).amount
    ELSE 0

\* The sum of the amounts of the user's rows in the range, key by key.
RECURSIVE SumByPk(_, _, _, _, _)
SumByPk(rows, n, user, date_from, date_to) ==
    IF n = 0 THEN 0
    ELSE AmountOfPk(rows, n, user, date_from, date_to)
             + SumByPk(rows, n - 1, user, date_from, date_to)

SummaryIsExact(user, date_from, date_to) ==
    LET s == get_financial_summary(expenses, incomes, user, date_from, date_to)
        ti == SumByPk(incomes, nextIncome - 1, user, date_from, date_to)
        te == SumByPk(expenses, nextExpense - 1, user, date_from, date_to)
    IN  /\ s.total_income = Num(ti)
        /\ s.total_expenses = Num(te)
        /\ s.balance = Num(ti - te)

\* C2: for every user and every optional pair of bounds the summary's
\* totals are the sums of the user's incomes and expenses dated within the
\* supplied bounds (inclusive, each bound on its own), and the balance is
\* exactly their difference; the dashboard reports these totals for a valid
\* range form.
C2_SummaryExact ==
    /\ \A u \in Users, f \in DateBounds, t \in DateBounds : SummaryIsExact(u, f, t)
    /\ resp.op = "dashboard" /\ resp.body.form_valid =>
          LET f == CleanField(resp.get.date_from)
              t == CleanField(resp.get.date_to)
          IN  /\ resp.body.total_income =
                     Num(SumByPk(incomes, nextIncome - 1, resp.user, f, t))
              /\ resp.body.total_expenses =
                     Num(SumByPk(expenses, nextExpense - 1, resp.user, f, t))
              /\ resp.body.balance =
                     Num(resp.body.total_income.v - resp.body.total_expenses.v)

\* C2 witness: a dashboard over [2026-07-24, 2027-01-10] with an expense on
\* the upper bound counted, an expense after it left out, and an income.
C2_Witness ==
    /\ resp.op = "dashboard"
    /\ resp.get.date_from = Val(205)
    /\ resp.get.date_to = Val(375)
    /\ \E e \in expenses : e.date = 375 /\ resp.body.total_expenses = Num(e.amount)
    /\ \E e \in expenses : e.date = 400
    /\ resp.body.total_income = Num(100000)
    /\ resp.body.balance.v > 0

---------------------------------------------------------------------------
(* Filter Engine properties.                                               *)

\* A well-formed request of the user: every supplied value parses and the
\* category, if supplied, is one of the user's.
WellFormed(user, get) ==
    /\ get.date_from.k # "bad"
    /\ get.date_to.k # "bad"
    /\ get.amount_min.k # "bad"
    /\ get.amount_max.k # "bad"
    /\ get.category.k # "bad"
    /\ get.category.k = "val" =>
          \E c \in categories : c.id = get.category.v /\ c.user = user

\* The row satisfies every supplied predicate of a well-formed request.
Satisfies(r, get) ==
    /\ get.search # <<>> =>
          IContains(r.title, get.search) \/ IContains(r.description, get.search)
    /\ get.category.k = "val" => r.category = get.category.v
    /\ get.date_from.k = "val" => r.date >= get.date_from.v
    /\ get.date_to.k = "val" => r.date <= get.date_to.v
    /\ get.amount_min.k = "val" => r.amount >= get.amount_min.v
    /\ get.amount_max.k = "val" => r.amount <= get.amount_max.v

\* Requests by category and first date: the date after every row of Spec.
ZeroGets == {[g EXCEPT !.date_from = f] : g \in CategoryGets, f \in {Absent, Val(375)}}

\* C3: when no row of the user matches, every reported sum is the number 0,
\* not None: the summary's three figures for a range without rows, the
\* expense list's total_filtered for filters no row satisfies, and the income
\* list's total_income for a user without incomes.
C3_ZeroNotNull ==
    \A u \in Users :
        /\ \A f \in DateBounds, t \in DateBounds :
              LET s == get_financial_summary(expenses, incomes, u, f, t)
                  noE == \A r \in Mine(expenses, u) : ~InRange(r.date, f, t)
                  noI == \A r \in Mine(incomes, u) : ~InRange(r.date, f, t)
              IN  /\ noE => s.total_expenses = Num(0)
                  /\ noI => s.total_income = Num(0)
                  /\ noE /\ noI => s.balance = Num(0)
        /\ \A g \in ZeroGets :
              WellFormed(u, g) /\ (\A r \in Mine(expenses, u) : ~Satisfies(r, g)) =>
                  /\ ExpenseList(categories, expenses, u, g, 1).status = 200
                  /\ ExpenseList(categories, expenses, u, g, 1).total_filtered = Num(0)
        /\ Mine(incomes, u) = {} =>
              IncomeList(incomes, u, 1).total_income = Num(0)

\* C3 witness: a user with expenses filtered by a category none of them has:
\* no rows, total_filtered 0.
C3_Witness ==
    /\ resp.op = "expense_list"
    /\ resp.status = 200
    /\ resp.get.category.k = "val"
    /\ WellFormed(resp.user, resp.get)
    /\ Mine(expenses, resp.user) # {}
    /\ resp.body.expenses = <<>>
    /\ resp.body.total_filtered = Num(0)
    /\ DashboardView(categories, expenses, incomes, resp.user, resp.get).total_income
           = Num(0)


\* date_from is later than date_to.
Inverted(get) ==
    /\ get.date_from.k = "val"
    /\ get.date_to.k = "val"
    /\ get.date_from.v > get.date_to.v

\* The request was refused: an error instead of a page of results.
Rejected(r) == r.status = 400

\* C4: a dashboard or expense-list request whose date_from is later than its
\* date_to is rejected: no totals and no rows are returned for it.
C4_InvertedRangeRejected ==
    resp.op \in {"dashboard", "expense_list"} /\ Inverted(resp.get) => Rejected(resp)

\* C5: an expense-list or dashboard request with a malformed parameter (a
\* date or an amount that does not parse, a category that is not the user's)
\* is rejected, not answered with rows or totals.
C5_MalformedRejected ==
    /\ resp.op = "expense_list" /\ ~WellFormed(resp.user, resp.get) => Rejected(resp)
    /\ resp.op = "dashboard" /\ ~WellFormed(resp.user, resp.get) => Rejected(resp)

\* The rows the expense list returns for a request.
Returned(get) == get_queryset(categories, expenses, DashUser, get)

\* C6: the rows returned for two sets of parameters supplied together are
\* exactly the rows returned for both of them alone; no parameters, all rows.
C6_Conjunction ==
    /\ Returned(NoFilter) = Mine(expenses, DashUser)
    /\ \A g \in OneParam, h \in OneParam :
          Supplied(g) \cap Supplied(h) = {} =>
              Returned(Together(g, h)) = Returned(g) \cap Returned(h)

\* The same for well-formed parameters, where the code does intersect.
ConjunctionOfWellFormed ==
    \A g \in FilterGets, h \in OneParam :
        /\ Supplied(g) \cap Supplied(h) = {}
        /\ WellFormed(DashUser, g)
        /\ WellFormed(DashUser, h)
        => /\ Returned(Together(g, h)) = Returned(g) \cap Returned(h)
           /\ Returned(g) = {r \in Mine(expenses, DashUser) : Satisfies(r, g)}

\* The rows of every page of the list a request returns.
AllPages(user, get) ==
    UNION {Range(ExpenseList(categories, expenses, user, get, p).expenses) :
              p \in {q \in 1..(nextExpense) :
                        ExpenseList(categories, expenses, user, get, q).status = 200}}

\* C7: total_filtered is the sum of the amounts of all rows of the filtered
\* list, over all its pages, for every request.
C7_TotalOverAllPages ==
    resp.op = "expense_list" /\ resp.status = 200 =>
        resp.body.total_filtered =
            Num(SumByPk(AllPages(resp.user, resp.get), nextExpense - 1,
                        resp.user, None, None))

\* C7 witness: a filtered list of two rows shown one per page; the total is
\* that of both rows.
C7_Witness ==
    /\ resp.op = "expense_list"
    /\ resp.status = 200
    /\ Supplied(resp.get) # {}
    /\ WellFormed(resp.user, resp.get)
    /\ Cardinality(AllPages(resp.user, resp.get)) > Len(resp.body.expenses)
    /\ Len(resp.body.expenses) >= 1
    /\ resp.body.total_filtered.v > resp.body.expenses[1].amount

---------------------------------------------------------------------------
(* Aggregation Engine properties.                                          *)

\* The trailing window: from today minus 180 days to today.
InWindow(d) == Today - WindowDays <= d /\ d <= Today

\* The user's rows of a table dated in the window and in the month of m.
WindowMonthRows(rows, user, m) ==
    {r \in Mine(rows, user) : InWindow(r.date) /\ TruncMonth(r.date) = TruncMonth(m)}

\* The months of the window in which the user has an expense or an income.
ActiveMonths(user) ==
    {TruncMonth(r.date) : r \in {x \in Mine(expenses, user) \cup Mine(incomes, user) :
                                    InWindow(x.date)}}

\* The positions of a month's label in the series.
PositionsOf(body, m) ==
    {i \in 1..Len(body.chart_labels) : body.chart_labels[i] = MonthLabel(m)}

\* C8: both series are reported over the same labels: every month of the
\* window with an expense or an income appears exactly once, with 0 for the
\* side that has no row in it.
C8_CommonMonths ==
    resp.op = "dashboard" =>
        \A m \in ActiveMonths(resp.user) :
            /\ Cardinality(PositionsOf(resp.body, m)) = 1
            /\ \A i \in PositionsOf(resp.body, m) :
                  /\ WindowMonthRows(expenses, resp.user, m) = {} =>
                        resp.body.chart_expense_data[i] = 0
                  /\ WindowMonthRows(incomes, resp.user, m) = {} =>
                        resp.body.chart_income_data[i] = 0

\* The monthly series of the dashboard over the given tables.
MonthlySeries(E, I, user) ==
    LET d == DashboardView(categories, E, I, user, NoFilter)
    IN  <<d.chart_labels, d.chart_expense_data, d.chart_income_data>>

\* C9: a row contributes to the monthly series (the series differs without
\* it) if and only if its date lies in the window from today minus 180 days
\* to today.
C9_TrailingWindow ==
    /\ \A r \in Mine(expenses, DashUser) :
          MonthlySeries(expenses, incomes, DashUser)
              # MonthlySeries(expenses \ {r}, incomes, DashUser)
          <=> InWindow(r.date)
    /\ \A r \in Mine(incomes, DashUser) :
          MonthlySeries(expenses, incomes, DashUser)
              # MonthlySeries(expenses, incomes \ {r}, DashUser)
          <=> InWindow(r.date)

\* The month (its first day) a label of the series names.
MonthsOfModel == {TruncMonth(d) : d \in Dates}
MonthOfLabel(label) == CHOOSE m \in MonthsOfModel : MonthLabel(m) = label

\* C10: the series is in ascending order of calendar month, one entry per
\* month, and each entry holds the sums of the user's expenses and incomes
\* of the window dated in that month.
C10_SeriesByMonth ==
    resp.op = "dashboard" =>
        LET labels == resp.body.chart_labels
        IN  /\ \A i \in 1..Len(labels) : \E m \in MonthsOfModel : MonthLabel(m) = labels[i]
            /\ \A i \in 1..Len(labels), j \in 1..Len(labels) :
                  i < j => MonthOfLabel(labels[i]) < MonthOfLabel(labels[j])
            /\ \A i \in 1..Len(labels) :
                  /\ resp.body.chart_expense_data[i] =
                        SumByPk(WindowMonthRows(expenses, resp.user, MonthOfLabel(labels[i])),
                                nextExpense - 1, resp.user, None, None)
                  /\ resp.body.chart_income_data[i] =
                        SumByPk(WindowMonthRows(incomes, resp.user, MonthOfLabel(labels[i])),
                                nextIncome - 1, resp.user, None, None)


\* What the code does compute: ascending months, one entry per month with an
\* expense dated on or after today minus 180 days (with no upper bound), and
\* per entry the sums of the expenses and incomes so dated in that month.
SeriesOfRowsSince ==
    resp.op = "dashboard" =>
        LET labels == resp.body.chart_labels
            since(rows, m) == {r \in Mine(rows, resp.user) :
                                  /\ r.date >= Today - WindowDays
                                  /\ TruncMonth(r.date) = m}
        IN  /\ \A i \in 1..Len(labels), j \in 1..Len(labels) :
                  i < j => MonthOfLabel(labels[i]) < MonthOfLabel(labels[j])
            /\ {MonthOfLabel(labels[i]) : i \in 1..Len(labels)}
                  = {m \in MonthsOfModel : since(expenses, m) # {}}
            /\ \A i \in 1..Len(labels) :
                  /\ resp.body.chart_expense_data[i] =
                        SumByPk(since(expenses, MonthOfLabel(labels[i])),
                                nextExpense - 1, resp.user, None, None)
                  /\ resp.body.chart_income_data[i] =
                        SumByPk(since(incomes, MonthOfLabel(labels[i])),
                                nextIncome - 1, resp.user, None, None)

\* The scenario of two expenses in consecutive months (across the year's
\* end) and an income in the first: the series the claim gives.
ScenarioSeries ==
    /\ resp.op = "dashboard"
    /\ {<<e.date, e.amount>> : e \in expenses} = {<<350, 5000>>, <<375, 3000>>}
    /\ {<<i.date, i.amount>> : i \in incomes} = {<<350, 100000>>}
    => /\ resp.body.chart_labels = <<"Dec 2026", "Jan 2027">>
       /\ resp.body.chart_expense_data = <<5000, 3000>>
       /\ resp.body.chart_income_data = <<100000, 0>>

---------------------------------------------------------------------------
(* Category breakdown properties.                                          *)

\* The expenses the breakdown of a dashboard response is about: the user's,
\* within the supplied date range if the range form was valid.
BreakdownRows(r) ==
    {e \in Mine(expenses, r.user) :
        InRange(e.date,
                IF r.body.form_valid THEN CleanField(r.get.date_from) ELSE None,
                IF r.body.form_valid THEN CleanField(r.get.date_to) ELSE None)}

\* The total of the rows that reference the category k (NoCategory: none).
TotalOfCategory(rows, user, k) ==
    SumByPk({e \in rows : e.category = k}, nextExpense - 1, user, None, None)

Injective(f) == \A i \in DOMAIN f, j \in DOMAIN f : f[i] = f[j] => i = j

\* C11: the category breakdown has at most 8 entries in non-increasing
\* order of total; the entries are the totals of distinct category
\* references of the user's expenses in the range, one entry per category
\* (as many entries as categories, up to 8), and no category left out has a
\* total greater than an entry's.
C11_CategoryBreakdown ==
    resp.op = "dashboard" =>
        LET rows == BreakdownRows(resp)
            refs == {e.category : e \in rows}
            data == resp.body.pie_data
            n == Len(data)
        IN  /\ n <= 8
            /\ n = IF Cardinality(refs) < 8 THEN Cardinality(refs) ELSE 8
            /\ \A i \in 1..n, j \in 1..n : i < j => data[i] >= data[j]
            /\ \E f \in [1..n -> refs] :
                  /\ Injective(f)
                  /\ \A i \in 1..n : data[i] = TotalOfCategory(rows, resp.user, f[i])
                  /\ \A k \in refs \ Range(f), i \in 1..n :
                        TotalOfCategory(rows, resp.user, k) <= data[i]

\* What the code does compute: the same with one entry per pair of category
\* name and color instead of one per category.
BreakdownByNameAndColor ==
    resp.op = "dashboard" =>
        LET rows == BreakdownRows(resp)
            key(e) == <<CategoryName(categories, e), CategoryColor(categories, e)>>
            keys == {key(e) : e \in rows}
            total(k) == SumByPk({e \in rows : key(e) = k}, nextExpense - 1,
                                resp.user, None, None)
            data == resp.body.pie_data
            n == Len(data)
        IN  /\ n = IF Cardinality(keys) < 8 THEN Cardinality(keys) ELSE 8
            /\ \A i \in 1..n, j \in 1..n : i < j => data[i] >= data[j]
            /\ \E f \in [1..n -> keys] :
                  /\ Injective(f)
                  /\ \A i \in 1..n : data[i] = total(f[i])
                  /\ \A i \in 1..n : resp.body.pie_labels[i] = PieLabel(f[i][1])
                  /\ \A k \in keys \ Range(f), i \in 1..n : total(k) <= data[i]

\* The entries of a breakdown labeled "Uncategorized".
UncategorizedEntries(body) ==
    {i \in 1..Len(body.pie_labels) : body.pie_labels[i] = <<"Uncategorized">>}

\* C12: the breakdown has an entry labeled "Uncategorized" if and only if
\* the user has expenses (in the range) without a category; it is then the
\* only such entry, its color is #6c757d and its total is theirs.
C12_UncategorizedIff ==
    resp.op = "dashboard" =>
        LET rows == BreakdownRows(resp)
            bare == {e \in rows : e.category = NoCategory}
            entries == UncategorizedEntries(resp.body)
        IN  /\ bare = {} => entries = {}
            /\ bare # {} /\ Len(resp.body.pie_labels) < 8 =>
                  /\ Cardinality(entries) = 1
                  /\ \A i \in entries :
                        /\ resp.body.pie_colors[i] = <<"#6c757d">>
                        /\ resp.body.pie_data[i] = TotalOfCategory(rows, resp.user, NoCategory)

---------------------------------------------------------------------------
(* Entry properties.                                                       *)

\* The category a posted form names is one of the given types.
NamesCategoryOfType(form, types) ==
    /\ form.category.k = "val"
    /\ \E c \in categories : c.id = form.category.v /\ c.category_type \in types

\* A create or edit request of the table was answered: it was accepted only
\* if the form names no category or one of the types allowed to the table,
\* the accepted row holds the form's category, and a refused request left the
\* table as it was.
EntryStep(create, update, rows, rowsNext, types) ==
    resp'.op \in {create, update} =>
        /\ resp'.status = 302 =>
              /\ resp'.form.category.k = "val" => NamesCategoryOfType(resp'.form, types)
              /\ \E r \in rowsNext :
                    /\ r.id = resp'.pk
                    /\ r.category = IF resp'.form.category.k = "val"
                                     THEN resp'.form.category.v ELSE NoCategory
        /\ resp'.status # 302 => rowsNext = rows
        /\ resp'.form.category.k = "val"
               /\ ~NamesCategoryOfType(resp'.form, types) =>
              resp'.status # 302 /\ rowsNext = rows

\* C17: an expense create or edit is accepted with a category only if the
\* category is of type expense or both, an income create or edit only if it
\* is of type income or both; a request naming a category of the other type
\* is refused and stores nothing, also when the row already references that
\* category.
C17_TypeRestriction ==
    [][/\ EntryStep("expense_create", "expense_update", expenses, expenses',
                    {"expense", "both"})
       /\ EntryStep("income_create", "income_update", incomes, incomes',
                    {"income", "both"})]_vars

\* C17 witness: the edit of an expense was refused because the category it
\* references, and names again, has been changed to type income.
C17_Witness ==
    /\ resp.op = "expense_update"
    /\ resp.status = 200
    /\ resp.form.category.k = "val"
    /\ \E e \in expenses : e.id = resp.pk /\ e.category = resp.form.category.v
    /\ \E c \in categories : c.id = resp.form.category.v /\ c.category_type = "income"

---------------------------------------------------------------------------
(* Seeder properties.                                                      *)

\* The rows are the catalog's: 12 categories, 8 of type expense and 4 of
\* type income, one per entry of the catalog with its name, type, icon and
\* color, each marked is_default.
IsCatalog(rows) ==
    /\ Cardinality(rows) = 12
    /\ Cardinality({c \in rows : c.category_type = "expense"}) = 8
    /\ Cardinality({c \in rows : c.category_type = "income"}) = 4
    /\ \A c \in rows :
          /\ c.is_default
          /\ \E i \in 1..Len(DEFAULT_CATEGORIES) :
                /\ c.name = DEFAULT_CATEGORIES[i].name
                /\ c.category_type = DEFAULT_CATEGORIES[i].category_type
                /\ c.icon = DEFAULT_CATEGORIES[i].icon
                /\ c.color = DEFAULT_CATEGORIES[i].color
    /\ \A i \in 1..Len(DEFAULT_CATEGORIES) :
          \E c \in rows : c.name = DEFAULT_CATEGORIES[i].name

\* A call of create_default_categories for a user without categories leaves
\* the user with the catalog; a call for a user who has the catalog changes
\* nothing.  seed_data leaves the new user 'demo' with the catalog.
C13_Step ==
    /\ resp'.op = "create_default_categories" =>
          /\ Mine(categories, resp'.user) = {} =>
                IsCatalog(Mine(categories', resp'.user)) /\ resp'.status = 302
          /\ IsCatalog(Mine(categories, resp'.user)) =>
                categories' = categories /\ resp'.status = 302
    /\ resp'.op = "seed_data" /\ DemoUser \notin users =>
          IsCatalog(Mine(categories', DemoUser))

\* C13: create_default_categories creates exactly the 12 categories of the
\* catalog for a new user, and called again, any number of times, creates
\* no further category: the user has the same 12.
C13_SeederIdempotent == [][C13_Step]_vars

\* C13 witness: create_default_categories has returned for a user who has
\* the 12 categories and an expense on one of them: a call after the call
\* that created them.
C13_Witness ==
    /\ resp.op = "create_default_categories"
    /\ resp.status = 302
    /\ IsCatalog(Mine(categories, resp.user))
    /\ \E e \in Mine(expenses, resp.user), c \in categories :
          c.id = e.category /\ c.is_default

\* C14: a call of create_default_categories (and a run of seed_data) leaves
\* every category that exists, edited or created by a user, as it is.
C14_SeederKeepsEdits ==
    [][resp'.op \in {"create_default_categories", "seed_data"} =>
          \A c \in categories : c \in categories']_vars

\* C14 witness: create_default_categories has returned for a user who had
\* renamed the first default category and had changed the type and the color
\* of another: the edited rows are as edited, the renamed default is there
\* again as a new row.
C14_Witness ==
    /\ resp.op = "create_default_categories"
    /\ \E c \in Mine(categories, resp.user), d \in Mine(categories, resp.user),
          e \in Mine(categories, resp.user) :
          /\ c.is_default /\ c.name = <<"a">>
          /\ d.is_default /\ d.name = DEFAULT_CATEGORIES[1].name /\ d.id > c.id
          /\ d.color = DEFAULT_CATEGORIES[1].color
          /\ e.is_default /\ e.id # d.id /\ e.id # c.id /\ e.color = <<"c">>

---------------------------------------------------------------------------
(* Category reference properties.                                          *)

\* The category a posted form or a filter names is another user's.
ForeignCategory(user, raw) ==
    /\ raw.k = "val"
    /\ \E c \in categories : c.id = raw.v /\ c.user # user

\* C20: every expense and every income that has a category references a
\* category of its own user; a create or edit that names another user's
\* category is refused, and a list request that names one is not filtered
\* by it.
C20_OwnCategory ==
    /\ \A r \in expenses \cup incomes :
          r.category # NoCategory =>
              \E c \in categories : c.id = r.category /\ c.user = r.user
    /\ resp.op \in {"expense_create", "expense_update", "income_create",
                     "income_update"}
          /\ ForeignCategory(resp.user, resp.form.category) => resp.status # 302
    /\ resp.op = "expense_list" /\ ForeignCategory(resp.user, resp.get.category) =>
          ~resp.body.form_valid

\* C20 witness: after seed_data has given 'demo' expenses with categories, an
\* edit of an expense that names a category of another user was refused.
C20_Witness ==
    /\ resp.op = "expense_update"
    /\ resp.status = 200
    /\ ForeignCategory(resp.user, resp.form.category)
    /\ \E e \in Mine(expenses, DemoUser) : e.category # NoCategory
    /\ \E e \in Mine(expenses, DashUser) : TRUE

---------------------------------------------------------------------------
(* Amount properties.                                                      *)

EntryOps == {"expense_create", "expense_update", "income_create", "income_update"}

\* A create or edit that posted an amount of zero or less was answered with
\* the form and its error (404 if the row to edit is not the user's) and has
\* changed nothing.
C15_Step ==
    /\ resp'.op \in EntryOps
    /\ resp'.form.amount.k = "val"
    /\ resp'.form.amount.v <= 0
    => /\ store' = store
       /\ resp'.status \in {200, 404}
       /\ resp'.status = 404 =>
             resp'.op \in {"expense_update", "income_update"}
                /\ ~Owns(TableOf(resp'.op), resp'.pk, resp'.user)

\* C15: a create or edit of an expense or an income with an amount of zero
\* or less is refused and changes nothing, and every stored expense and
\* income has an amount greater than zero.
C15_PositiveAmount ==
    /\ [](\A r \in expenses \cup incomes : r.amount > 0)
    /\ [][C15_Step]_vars

\* C15 witness: the edit of an expense to the amount 0 (or less) was refused
\* and the expense has its amount.
C15_Witness ==
    /\ resp.op = "expense_update"
    /\ resp.status = 200
    /\ resp.form.amount.v <= 0
    /\ \E e \in expenses : e.id = resp.pk /\ e.user = resp.user /\ e.amount > 0
    /\ \E i \in incomes : i.amount > 0

---------------------------------------------------------------------------
(* Category deletion properties.                                           *)

\* The row as it is after the category pk was deleted.
WithoutCategory(r, pk) == IF r.category = pk THEN [r EXCEPT !.category = NoCategory] ELSE r

\* A category was deleted: it is gone, and each table of transactions holds
\* the rows it held, those that referenced the category with no category and
\* otherwise unchanged.
C16_Step ==
    resp'.op = "category_delete" /\ resp'.status = 302 =>
        /\ ~HasCategory(categories', resp'.pk)
        /\ expenses' = {WithoutCategory(e, resp'.pk) : e \in expenses}
        /\ incomes' = {WithoutCategory(i, resp'.pk) : i \in incomes}
        /\ Cardinality(expenses') = Cardinality(expenses)
        /\ Cardinality(incomes') = Cardinality(incomes)
        /\ \A e \in expenses : \E x \in expenses' :
              /\ x.id = e.id /\ x.user = e.user /\ x.title = e.title
              /\ x.amount = e.amount /\ x.date = e.date
              /\ x.description = e.description

\* C16: deleting a category deletes no expense and no income and changes
\* none but for the reference to the category, which becomes null; and every
\* category reference of a stored expense or income is to a category that
\* exists.
C16_DeleteKeepsTransactions ==
    /\ [](\A r \in expenses \cup incomes :
            r.category # NoCategory => HasCategory(categories, r.category))
    /\ [][C16_Step]_vars

\* C16 witness: a category was deleted; an expense and an income posted
\* with it (the amount 2.50) are there without a category.
C16_Witness ==
    /\ resp.op = "category_delete"
    /\ resp.status = 302
    /\ categories = {}
    /\ \E e \in expenses : e.amount = 250 /\ e.category = NoCategory
    /\ \E i \in incomes : i.amount = 250 /\ i.category = NoCategory

---------------------------------------------------------------------------
(* Ordering properties.                                                    *)

\* a is listed before b: a later date, or the same date and created later.
ListedBefore(a, b) ==
    \/ a.date > b.date
    \/ a.date = b.date /\ a.created_at > b.created_at

\* The list holds, in the order of the listings, the first rows of the set
\* from position first on: each row of the list has before it in the set
\* exactly as many rows as its position says.
InListingOrder(list, rows, first) ==
    \A i \in 1..Len(list) :
        /\ list[i] \in rows
        /\ Cardinality({r \in rows : ListedBefore(r, list[i])}) = first + i - 2

\* The first n rows or all.
AtMost(n, rows) == IF Cardinality(rows) < n THEN Cardinality(rows) ELSE n

\* C18: each page of the expense list and of the income list holds the rows
\* of its positions in the order date descending, then creation descending,
\* of the user's rows (for the expense list: of the rows that satisfy the
\* predicates supplied); the dashboard's recent expenses and recent income
\* are the first 5 rows of the user's rows in this order.
C18_ListingOrder ==
    /\ resp.op = "expense_list" /\ resp.status = 200 =>
          /\ WellFormed(resp.user, resp.get)
          /\ InListingOrder(resp.body.expenses,
                            {r \in Mine(expenses, resp.user) : Satisfies(r, resp.get)},
                            (resp.page - 1) * EXPENSES_PER_PAGE + 1)
    /\ resp.op = "income_list" /\ resp.status = 200 =>
          InListingOrder(resp.body.incomes, Mine(incomes, resp.user),
                         (resp.page - 1) * EXPENSES_PER_PAGE + 1)
    /\ resp.op = "dashboard" =>
          /\ Len(resp.body.recent_expenses) = AtMost(5, Mine(expenses, resp.user))
          /\ InListingOrder(resp.body.recent_expenses, Mine(expenses, resp.user), 1)
          /\ Len(resp.body.recent_income) = AtMost(5, Mine(incomes, resp.user))
          /\ InListingOrder(resp.body.recent_income, Mine(incomes, resp.user), 1)

\* C18 witness: a dashboard of a user with six expenses and six incomes: the
\* five recent expenses have a row of the later date before a row created
\* after it, and two rows of one date, the later created first.
C18_Witness ==
    /\ resp.op = "dashboard"
    /\ Cardinality(Mine(expenses, resp.user)) = 6
    /\ Cardinality(Mine(incomes, resp.user)) = 6
    /\ Len(resp.body.recent_expenses) = 5
    /\ Len(resp.body.recent_income) = 5
    /\ \E i \in 1..5, j \in 1..5 :
          /\ i < j
          /\ resp.body.recent_expenses[i].date > resp.body.recent_expenses[j].date
          /\ resp.body.recent_expenses[i].created_at
                 < resp.body.recent_expenses[j].created_at
    /\ \E i \in 1..5, j \in 1..5 :
          /\ i < j
          /\ resp.body.recent_expenses[i].date = resp.body.recent_expenses[j].date
          /\ resp.body.recent_expenses[i].created_at
                 > resp.body.recent_expenses[j].created_at

\* A filtered page of the list further down: the second page or a later one
\* of a request with predicates, with a row on it.
FilteredPageReached ==
    /\ resp.op = "expense_list"
    /\ resp.status = 200
    /\ resp.page >= 2
    /\ Supplied(resp.get) # {}
    /\ Cardinality(Mine(expenses, resp.user)) > Len(resp.body.expenses)
    /\ Len(resp.body.expenses) = 1

---------------------------------------------------------------------------
(* Concurrent edit properties.                                             *)

\* The row holds the values the form submitted.
HoldsForm(r, form) ==
    /\ r.title = form.title
    /\ r.amount = form.amount.v
    /\ r.category = IF form.category.k = "val" THEN form.category.v ELSE NoCategory
    /\ r.date = form.date.v
    /\ r.description = form.description

\* An edit in flight has saved: it was answered 302, the row of its primary
\* key holds the values of its form, all of them, and belongs to its user;
\* every other row of the table, the other table and the categories are as
\* they were.
C19_Step ==
    \A edit \in pending :
        edit \notin pending' =>
            LET rows == IF edit.table = "expense" THEN expenses ELSE incomes
                rowsNext == IF edit.table = "expense" THEN expenses' ELSE incomes'
                pk == edit.loaded.id
            IN  /\ resp'.status = 302
                /\ resp'.form = edit.form
                /\ Cardinality({r \in rowsNext : r.id = pk}) = 1
                /\ \A r \in rowsNext :
                      r.id = pk => HoldsForm(r, edit.form) /\ r.user = edit.user
                /\ {r \in rowsNext : r.id # pk} = {r \in rows : r.id # pk}
                /\ edit.table = "expense" => incomes' = incomes
                /\ edit.table = "income" => expenses' = expenses
                /\ categories' = categories

\* C19: of edit requests of one row that run concurrently, each can save
\* whatever the others have done, and each save leaves the row holding
\* exactly the values of the form it saved, so that the row holds those of
\* the last save, never a mixture; no other row changes.
C19_LastWriteWins ==
    /\ [](\A edit \in pending :
            ENABLED (ExpenseUpdateSave(edit) \/ IncomeUpdateSave(edit)))
    /\ [][C19_Step]_vars

\* C19 witness: an edit of an expense has saved while another edit of the
\* same expense, with another form, is in flight, having read the row before
\* this save; the row holds the saved form's values, which agree with the
\* values the other edit read in one field and differ in another.
C19_Witness ==
    /\ resp.op = "expense_update"
    /\ resp.status = 302
    /\ \E other \in pending, r \in expenses :
          /\ other.table = "expense"
          /\ other.loaded.id = resp.pk
          /\ other.form # resp.form
          /\ r.id = resp.pk
          /\ HoldsForm(r, resp.form)
          /\ r # other.loaded
          /\ r.title = other.loaded.title
          /\ r.amount # other.loaded.amount
          /\ other.form.title # r.title
          /\ other.form.amount.v = other.loaded.amount

---------------------------------------------------------------------------
(* Deletion properties.                                                    *)

\* The primary keys of a table's rows.
KeysOf(rows) == {r.id : r \in rows}

\* The primary keys a table has given out and holds no more: the counter has
\* passed them and no row has them.  Keys are given out in order and never
\* twice, and only the delete views remove a row, so these are the keys of
\* the deleted rows.
DeletedKeys(rows, next) == (1 .. (next - 1)) \ KeysOf(rows)

\* No step brings back a deleted row.
C21_Step ==
    /\ DeletedKeys(expenses, nextExpense) \cap KeysOf(expenses') = {}
    /\ DeletedKeys(incomes, nextIncome) \cap KeysOf(incomes') = {}

\* C21: a row that ExpenseDeleteView or IncomeDeleteView has deleted never
\* exists again in its table (and so is in no list, total or export, which
\* read the table), whatever requests follow, the save of an edit that read
\* the row before the deletion included.
C21_DeletedStaysDeleted == [][C21_Step]_vars

\* The deleted row is back: the save of an edit answered 302 for a primary
\* key that no row had before the save (created_at is the time of the
\* insert, later than the key), and the owner's totals and export read the
\* row again.
C21_RowIsBack ==
    /\ resp.op = "expense_update"
    /\ resp.status = 302
    /\ resp.pk \in KeysOf(Mine(expenses, resp.user))
    /\ \E r \in Mine(expenses, resp.user) :
          /\ r.id = resp.pk
          /\ r.created_at > r.id
          /\ r \in get_financial_summary(expenses, incomes, resp.user, None, None).expenses_qs
          /\ Len(ExportCsv(categories, expenses, resp.user).rows) >= 1

---------------------------------------------------------------------------
(* Account properties.                                                     *)

\* The users that have the email.
UsersWithEmail(email) == {u \in users : emails[u] = email}

\* C22: no two users have the same email, whatever registrations and
\* profile updates have been made: a registration with an email that a user
\* has is rejected and creates no user, and a profile update cannot give a
\* user the email of another.
C22_UniqueEmail ==
    \A u \in users, v \in users : u # v => emails[u] # emails[v]

\* The part of C22 about registrations: a registration with an email that a
\* user has is answered with the form again and creates no user, and a user
\* that a registration creates is the only one with its email.
RegistrationKeepsEmailsUnique ==
    [][resp'.op = "register" =>
          /\ UsersWithEmail(resp'.form.email) # {} =>
                 resp'.status = 200 /\ users' = users /\ emails' = emails
          /\ users' # users =>
                 \A u \in users' \ users :
                    emails'[u] = resp'.form.email
                    /\ \A v \in users : emails'[v] # emails'[u]]_vars

\* A profile update has given a user the email of another.
C22_SharedEmail ==
    /\ resp.op = "profile"
    /\ resp.status = 302
    /\ emails[resp.user] = resp.form.email
    /\ UsersWithEmail(resp.form.email) \ {resp.user} # {}

====
